---- MODULE Spec2Model ----
(***************************************************************************)
(* Model of pathway's scope lowering state                                 *)
(* (python/pathway/internals/graph_runner/state.py, class ScopeState).     *)
(*                                                                         *)
(* The ScopeState maps logical entities (universes, columns, tables,       *)
(* storages, contexts) to engine handles.  Every public method is one      *)
(* action.  A method body is a chain of pure operators over a "frame"      *)
(* record that carries the maps, the engine call log of the running        *)
(* method, the pending exception and the value returned so far; an action  *)
(* commits the frame the method ends with, so state written before an      *)
(* exception is raised stays written, as in Python.                        *)
(***************************************************************************)
EXTENDS Integers, Sequences, FiniteSets, TLC

\* ------------------------------------------------------------------ bounds
\* Number of fresh handles the engine may hand out (table_column and
\* columns_to_table results).
MaxHandles == 2
\* Number of table operator calls made while the plan is composed.
MaxOperatorCalls == 2
\* Number of promises made on universes while the plan is composed.
MaxPromises == 3
\* Number of operator calls made between the promises.
MaxAllocations == 1
\* Stream checks: the largest order of an expected entry, the number of
\* expected entries and of expected rows, the number of updates of the
\* stream and its largest time.
MaxOrder == 2
MaxEntries == 3
MaxExpected == 2
MaxEvents == 3
MaxTime == 2
\* Largest timeout_sec of wait_result_with_checker.
MaxTimeoutSec == 3
\* Length of the computer registry.
MaxComputers == 2

\* ------------------------------------------------------- logical entities
\* universe.Universe objects of the plan.
Universes == {"u1", "u2"}
\* column.Column objects of the plan are c1, c2, e1, i1, all on universe
\* u1; e1 is an ExternalMaterializedColumn, i1 the IdColumn of the logical
\* table.
ExternalColumns == {"e1"}
\* column.universe
column_universe ==
    [c \in {"c1", "c2", "e1", "i1"} |-> "u1"]

\* path_storage.Storage values: the universe the storage belongs to and the
\* columns it holds, in get_columns() order.  The ColumnPath of a column is
\* its position in that order.
Storages ==
    { [universe |-> "u1", columns |-> <<"c1", "e1", "c2">>],
      [universe |-> "u1", columns |-> <<"e1", "c2">>],
      [universe |-> "u2", columns |-> <<>>] }

\* table.Table values: _universe, _id_column, _columns (in order).
LogicalTables ==
    { [universe |-> "u1", id_column |-> "i1", columns |-> <<"c1", "c2">>] }

\* column.Context keys of the evaluator cache.
Contexts == {"x1", "x2"}

\* --------------------------------------------------------- engine handles
\* api.Universe handles are 1 and 2.
\* api.Column handle: an identity and the engine universe it lives on.
\* Handles made by the engine during lowering get ids 1..MaxHandles, handles
\* passed in by callers have negative ids, the id column of an engine
\* universe has id 0.
EngineColumn(i, h) == [id |-> i, universe |-> h]
\* api.Table handle: an identity and the engine universe of its rows.
EngineTable(i, h) == [id |-> i, universe |-> h]
\* api.LegacyTable(universe, columns)
LegacyTable(h, cols) == [universe |-> h, columns |-> cols]

None == "None"
\* What `last` records for a call without argument or without return value.
NoValue == "none" :> None

VARIABLES
    universes,      \* dict[Universe, api.Universe]
    columns,        \* dict[Column, api.Column]
    legacy_tables,  \* dict[Table, api.LegacyTable]
    tables,         \* dict[Universe, api.Table]
    storages,       \* dict[Universe, Storage]
    evaluators,     \* dict[Context, ExpressionEvaluator]
    computers,      \* list[Callable]
    nextId,         \* engine: the next fresh handle id
    table_universe_calls, \* history: per universe, the handles that
                    \* scope.table_universe returned when resolving it
    factory_calls,  \* history: evaluator_factory invocations per context
    issued,         \* history: (id, callback) of every add_computer_logic
    table_objects,  \* the Table objects built so far, by object identity
    universe_solver, \* G.universe_solver, over the Universe objects
    graph,          \* G: the operator nodes of the parse graph
    lineage,        \* the _source of tables, the lineage of columns and
                    \* of universes, by object identity
    user_tables,    \* identities of the tables handed to the user
    operator_calls, \* number of calls on tables made so far
    promise_calls,  \* number of promises on universes made so far
    callback,       \* the OnChangeCallback subscribed to the output stream
    wait,           \* the wait_result_with_checker call in progress
    last            \* the last public call: op, arg, exc, ret, calls

vars == << universes, columns, legacy_tables, tables, storages, evaluators,
           computers, nextId, table_universe_calls, factory_calls, issued,
           table_objects, universe_solver, graph, lineage, user_tables,
           operator_calls, promise_calls, callback, wait, last >>

\* ---------------------------------------------------------------- helpers
EmptyMap == [k \in {} |-> None]
\* d[k] = v
Put(d, k, v) == [x \in (DOMAIN d) \cup {k} |-> IF x = k THEN v ELSE d[x]]

\* Storage.has_column
storage_has_column(storage, col) ==
    \E i \in 1..Len(storage.columns) : storage.columns[i] = col
\* Storage.get_path
storage_get_path(storage, col) ==
    CHOOSE i \in 1..Len(storage.columns) : storage.columns[i] = col

\* The frame a public method starts with.
Frame ==
    [ universes |-> universes, columns |-> columns,
      legacy_tables |-> legacy_tables, tables |-> tables,
      storages |-> storages, evaluators |-> evaluators,
      computers |-> computers, nextId |-> nextId,
      table_universe_calls |-> table_universe_calls,
      factory_calls |-> factory_calls, issued |-> issued,
      calls |-> <<>>, exc |-> "none", ret |-> None ]

Ok(m) == m.exc = "none"
Return(m, v) == [m EXCEPT !.ret = v]
Raise(m, e) == [m EXCEPT !.exc = e, !.ret = None]
\* Sequencing of statements: the rest of a method runs on the frame its
\* first part ended with, unless that part raised.
Bind(m, rest(_)) == IF Ok(m) THEN rest(m) ELSE m
\* try: <call>; return True / except OutOfScopeError: return False
Probe(m) ==
    IF Ok(m) THEN Return(m, TRUE)
    ELSE IF m.exc = "OutOfScopeError"
         THEN [m EXCEPT !.exc = "none", !.ret = FALSE]
         ELSE m
\* ----------------------------------------------------------- engine scope
\* scope.table_universe(table): the universe handle of an engine table.
table_universe(m, engine_table) ==
    [m EXCEPT !.calls = Append(@, [fn |-> "table_universe",
                                    table |-> engine_table,
                                    result_universe |->
                                        engine_table.universe]),
              !.ret = engine_table.universe]

\* scope.table_column(universe, table, path): a new column handle on the
\* given engine universe.
table_column(m, engine_universe, engine_table, column_path) ==
    [m EXCEPT !.calls = Append(@, [fn |-> "table_column",
                                    universe |-> engine_universe,
                                    table |-> engine_table,
                                    path |-> column_path,
                                    result_column |->
                                        EngineColumn(m.nextId,
                                                     engine_universe)]),
              !.nextId = @ + 1,
              !.ret = EngineColumn(m.nextId, engine_universe)]

\* scope.columns_to_table(universe, columns_with_paths): a new engine table
\* on the given engine universe.
columns_to_table(m, engine_universe, columns_with_paths) ==
    [m EXCEPT !.calls = Append(@, [fn |-> "columns_to_table",
                                    universe |-> engine_universe,
                                    columns |-> columns_with_paths,
                                    result_table |->
                                        EngineTable(m.nextId,
                                                    engine_universe)]),
              !.nextId = @ + 1,
              !.ret = EngineTable(m.nextId, engine_universe)]

\* ------------------------------------------------------ ScopeState methods
\* Variant of get_storage: a missing key yields an empty default storage.
get_storage_default(m, key) ==
    IF key \notin DOMAIN m.storages
    THEN Return(m, [universe |-> key, columns |-> <<>>])
    ELSE Return(m, m.storages[key])

get_storage(m, key) ==
    IF key \notin DOMAIN m.storages
    THEN Raise(m, "OutOfScopeError")
    ELSE Return(m, m.storages[key])

get_table(m, key) ==
    IF key.universe \notin DOMAIN m.tables
    THEN Raise(m, "KeyError")
    ELSE Return(m, m.tables[key.universe])

\* Variant of set_table: only the storage is registered.
set_table_storage_only(m, storage, table) ==
    [m EXCEPT !.storages = Put(@, storage.universe, storage),
              !.ret = None]

set_table(m, storage, table) ==
    [m EXCEPT !.tables = Put(@, storage.universe, table),
              !.storages = Put(@, storage.universe, storage),
              !.ret = None]

has_universe(m, key) == key \in DOMAIN m.universes

\* Variant of set_universe: plain assignment, no check of a cached entry.
set_universe_overwrite(m, key, value) ==
    [m EXCEPT !.universes = Put(@, key, value), !.ret = None]

set_universe(m, key, value) ==
    IF key \in DOMAIN m.universes
    THEN IF m.universes[key] = value
         THEN Return(m, None)
         ELSE Raise(m, "AssertionError")
    ELSE [m EXCEPT !.universes = Put(@, key, value), !.ret = None]

extract_universe(m, univ) ==
    Bind(get_storage(m, univ), LAMBDA m1 :
    Bind(get_table(m1, m1.ret), LAMBDA m2 :
    Bind(table_universe(m2, m2.ret), LAMBDA m3 :
    \* (history: resolving univ, scope.table_universe returned m3.ret)
    Bind(set_universe(
             [m3 EXCEPT !.table_universe_calls[univ] = Append(@, m3.ret)],
             univ, m3.ret),
         LAMBDA m4 : Return(m4, m3.ret)))))

\* Variant of get_universe: the cache is not consulted.
get_universe_uncached(m, key) == extract_universe(m, key)

get_universe(m, key) ==
    IF key \notin DOMAIN m.universes
    THEN extract_universe(m, key)
    ELSE Return(m, m.universes[key])

set_column(m, key, value) ==
    set_universe([m EXCEPT !.columns = Put(@, key, value)],
                 column_universe[key], value.universe)

\* Variant of extract_column: the universe is resolved before the storage is
\* asked whether it holds the column.
extract_column_resolve_first(m, column) ==
    Bind(get_storage(m, column_universe[column]), LAMBDA m1 :
    Bind(get_table(m1, m1.ret), LAMBDA m2 :
    Bind(IF ~has_universe(m2, column_universe[column])
         THEN extract_universe(m2, column_universe[column])
         ELSE get_universe(m2, column_universe[column]), LAMBDA m3 :
    IF ~storage_has_column(m1.ret, column)
    THEN Raise(m3, "OutOfScopeError") ELSE
    Bind(table_column(m3, m3.ret, m2.ret, storage_get_path(m1.ret, column)),
         LAMBDA m4 :
    Bind(set_column(m4, column, m4.ret), LAMBDA m5 : Return(m5, m4.ret))))))

\* Variant of extract_column: the universe is always extracted from the
\* engine table, cached or not.
extract_column_always_extract(m, column) ==
    Bind(get_storage(m, column_universe[column]), LAMBDA m1 :
    IF ~storage_has_column(m1.ret, column)
    THEN Raise(m1, "OutOfScopeError") ELSE
    Bind(get_table(m1, m1.ret), LAMBDA m2 :
    Bind(extract_universe(m2, column_universe[column]), LAMBDA m3 :
    Bind(table_column(m3, m3.ret, m2.ret, storage_get_path(m1.ret, column)),
         LAMBDA m4 :
    Bind(set_column(m4, column, m4.ret), LAMBDA m5 : Return(m5, m4.ret))))))

extract_column(m, column) ==
    Bind(get_storage(m, column_universe[column]), LAMBDA m1 :
    IF ~storage_has_column(m1.ret, column)
    THEN Raise(m1, "OutOfScopeError") ELSE
    Bind(get_table(m1, m1.ret), LAMBDA m2 :
    Bind(IF ~has_universe(m2, column_universe[column])
         THEN extract_universe(m2, column_universe[column])
         ELSE get_universe(m2, column_universe[column]), LAMBDA m3 :
    Bind(table_column(m3, m3.ret, m2.ret, storage_get_path(m1.ret, column)),
         LAMBDA m4 :
    Bind(set_column(m4, column, m4.ret), LAMBDA m5 : Return(m5, m4.ret))))))

\* Variant of get_column: the cache is not consulted.
get_column_uncached(m, key) == extract_column(m, key)

get_column(m, key) ==
    IF key \notin DOMAIN m.columns
    THEN extract_column(m, key)
    ELSE Return(m, m.columns[key])

\* Variant of has_column: only the cache is asked.
has_column_cached_only(m, key) == Return(m, key \in DOMAIN m.columns)

has_column(m, key) == Probe(get_column(m, key))

RECURSIVE get_columns_from(_, _, _, _)
\* [self.get_column(column) for column in columns], from position i on;
\* acc holds the handles collected so far.
get_columns_from(m, cols, i, acc) ==
    IF i > Len(cols) THEN Return(m, acc) ELSE
    Bind(get_column(m, cols[i]), LAMBDA m1 :
    get_columns_from(m1, cols, i + 1, Append(acc, m1.ret)))

get_columns(m, cols) == get_columns_from(m, cols, 1, <<>>)

RECURSIVE set_columns_zip(_, _, _, _)
\* for (_, col), evaluated_column in zip(key._columns.items(), value.columns):
\*     self.set_column(col, evaluated_column)
set_columns_zip(m, cols, values, i) ==
    IF i > Len(cols) \/ i > Len(values) THEN Return(m, None) ELSE
    Bind(set_column(m, cols[i], values[i]), LAMBDA m1 :
    set_columns_zip(m1, cols, values, i + 1))

set_legacy_table(m, key, value) ==
    Bind(set_column([m EXCEPT !.legacy_tables = Put(@, key, value)],
                    key.id_column, EngineColumn(0, value.universe)),
         LAMBDA m1 :
    set_columns_zip(m1, key.columns, value.columns, 1))

\* Variant of get_legacy_table: the table is entered in legacy_tables as
\* soon as its universe is resolved, before its columns are.
get_legacy_table_enters_early(m, key) ==
    IF key \in DOMAIN m.legacy_tables
    THEN Return(m, m.legacy_tables[key]) ELSE
    Bind(get_universe(m, key.universe), LAMBDA m1 :
    Bind(get_columns([m1 EXCEPT !.legacy_tables =
                          Put(@, key, LegacyTable(m1.ret, <<>>))],
                     key.columns), LAMBDA m2 :
    [m2 EXCEPT !.legacy_tables = Put(@, key, LegacyTable(m1.ret, m2.ret)),
               !.ret = LegacyTable(m1.ret, m2.ret)]))

get_legacy_table(m, key) ==
    IF key \in DOMAIN m.legacy_tables
    THEN Return(m, m.legacy_tables[key]) ELSE
    Bind(get_universe(m, key.universe), LAMBDA m1 :
    Bind(get_columns(m1, key.columns), LAMBDA m2 :
    [m2 EXCEPT !.legacy_tables = Put(@, key, LegacyTable(m1.ret, m2.ret)),
               !.ret = LegacyTable(m1.ret, m2.ret)]))

has_legacy_table(m, key) == Probe(get_legacy_table(m, key))

get_context_table(m, key) ==
    Bind(get_universe(m, key.universe), LAMBDA m1 :
    Bind(get_columns(m1, key.columns), LAMBDA m2 :
    Return(m2, LegacyTable(m1.ret, m2.ret))))

RECURSIVE collect_columns_with_paths_prepend(_, _, _, _)
\* Variant of the loop of create_table: each pair is put in front of
\* columns_with_paths.
collect_columns_with_paths_prepend(m, storage, i, acc) ==
    IF i > Len(storage.columns) THEN Return(m, acc) ELSE
    IF storage.columns[i] \in ExternalColumns
    THEN collect_columns_with_paths_prepend(m, storage, i + 1, acc) ELSE
    Bind(get_column(m, storage.columns[i]), LAMBDA m1 :
    collect_columns_with_paths_prepend(m1, storage, i + 1,
        <<<<m1.ret, storage_get_path(storage, storage.columns[i])>>>>
            \o acc))

RECURSIVE collect_columns_with_paths(_, _, _, _)
\* The loop of create_table over storage.get_columns(), from position i on:
\* every column that is not an ExternalMaterializedColumn is resolved and
\* paired with its path; acc is columns_with_paths so far.
collect_columns_with_paths(m, storage, i, acc) ==
    IF i > Len(storage.columns) THEN Return(m, acc) ELSE
    IF storage.columns[i] \in ExternalColumns
    THEN collect_columns_with_paths(m, storage, i + 1, acc) ELSE
    Bind(get_column(m, storage.columns[i]), LAMBDA m1 :
    collect_columns_with_paths(m1, storage, i + 1,
        Append(acc, <<m1.ret, storage_get_path(storage, storage.columns[i])>>)))

\* Variant of create_table: the storage is registered even when the table
\* could not be built.
create_table_registers_early(m, universe, storage) ==
    LET built ==
            Bind(collect_columns_with_paths(m, storage, 1, <<>>), LAMBDA m1 :
            Bind(get_universe(m1, universe), LAMBDA m2 :
            Bind(columns_to_table(m2, m2.ret, m1.ret), LAMBDA m3 :
            set_table(m3, storage, m3.ret))))
    IN IF Ok(built) THEN built
       ELSE [built EXCEPT !.storages = Put(@, storage.universe, storage)]

create_table(m, universe, storage) ==
    Bind(collect_columns_with_paths(m, storage, 1, <<>>), LAMBDA m1 :
    Bind(get_universe(m1, universe), LAMBDA m2 :
    Bind(columns_to_table(m2, m2.ret, m1.ret), LAMBDA m3 :
    set_table(m3, storage, m3.ret))))

\* Variant of add_computer_logic: the callback is put in front of the list.
add_computer_logic_prepend(m, computer_callback) ==
    [m EXCEPT !.computers = <<computer_callback>> \o @,
              !.issued = Append(@, [id |-> Len(m.computers),
                                    callback |-> computer_callback]),
              !.ret = Len(m.computers)]

add_computer_logic(m, computer_callback) ==
    [m EXCEPT !.computers = Append(@, computer_callback),
              !.issued = Append(@, [id |-> Len(m.computers),
                                    callback |-> computer_callback]),
              !.ret = Len(m.computers)]

\* self.computers[id], Python list indexing: a negative id counts from the
\* end of the list.
get_computer_logic(m, id) ==
    IF 0 <= id /\ id < Len(m.computers)
    THEN Return(m, m.computers[id + 1])
    ELSE IF -Len(m.computers) <= id /\ id < 0
         THEN Return(m, m.computers[Len(m.computers) + id + 1])
         ELSE Raise(m, "IndexError")

\* evaluator_factory(context): the evaluator the factory builds.
evaluator_factory(factory, context) ==
    [factory |-> factory, context |-> context]

\* Variant: the factory is invoked on every call.
get_or_create_evaluator_always_create(m, context, factory) ==
    [m EXCEPT !.evaluators =
                  Put(@, context, evaluator_factory(factory, context)),
              !.factory_calls[context] = @ + 1,
              !.ret = evaluator_factory(factory, context)]

get_or_create_evaluator(m, context, factory) ==
    IF context \notin DOMAIN m.evaluators
    THEN [m EXCEPT !.evaluators =
                       Put(@, context, evaluator_factory(factory, context)),
                   !.factory_calls[context] = @ + 1,
                   !.ret = evaluator_factory(factory, context)]
    ELSE Return(m, m.evaluators[context])

\* -------------------------------------------------------- universe solver
\* A Universe object is the number under which the solver knows it.  The
\* solver is a union-find over the universes (representative), a set of
\* pairs asserted disjoint, a set of pairs asserted subset and the set of
\* the universes registered as empty.
Universe(m) ==
    [m EXCEPT !.universe_solver.representative =
                  Append(@, Len(@) + 1),
              !.ret = Len(m.universe_solver.representative) + 1]

\* The representative of universe u.
find(solver, u) == solver.representative[u]

\* The representatives reached from those in `seen` along subset assertions.
RECURSIVE supersets_of(_, _)
supersets_of(solver, seen) ==
    LET more == {find(solver, e[2]) :
                    e \in {e \in solver.subset : find(solver, e[1]) \in seen}}
    IN IF more \subseteq seen THEN seen
       ELSE supersets_of(solver, seen \cup more)

query_are_equal(solver, u, v) == find(solver, u) = find(solver, v)

query_is_subset(solver, u, v) ==
    \/ find(solver, v) \in supersets_of(solver, {find(solver, u)})
    \/ find(solver, u) \in {find(solver, e) : e \in solver.empty}

\* u and v are proved disjoint: a superset of one is asserted disjoint from
\* a superset of the other, or one of them is empty.
proved_disjoint(solver, u, v) ==
    \/ \E e \in solver.disjoint :
           \/ /\ query_is_subset(solver, u, e[1])
              /\ query_is_subset(solver, v, e[2])
           \/ /\ query_is_subset(solver, u, e[2])
              /\ query_is_subset(solver, v, e[1])
    \/ \E e \in solver.empty :
           find(solver, e) \in {find(solver, u), find(solver, v)}

query_are_disjoint(solver, us) ==
    \A i \in 1..Len(us) : \A j \in (i + 1)..Len(us) :
        proved_disjoint(solver, us[i], us[j])

\* G.universe_solver.get_subset(u): a new universe, subset of u.
get_subset(m, u) ==
    Bind(Universe(m), LAMBDA m1 :
    [m1 EXCEPT !.universe_solver.subset = @ \cup {<<m1.ret, u>>}])

\* G.universe_solver.get_difference(u, v): a new universe, subset of u and
\* disjoint from v.
get_difference(m, u, v) ==
    Bind(Universe(m), LAMBDA m1 :
    [m1 EXCEPT !.universe_solver.subset = @ \cup {<<m1.ret, u>>},
               !.universe_solver.disjoint = @ \cup {<<m1.ret, v>>}])

\* G.universe_solver.get_intersection(us): the argument that is a subset of
\* all the others if there is one, else a new universe, subset of each.
get_intersection(m, us) ==
    IF \E i \in 1..Len(us) : \A j \in 1..Len(us) :
           query_is_subset(m.universe_solver, us[i], us[j])
    THEN Return(m, us[CHOOSE i \in 1..Len(us) :
                        /\ \A j \in 1..Len(us) :
                              query_is_subset(m.universe_solver, us[i], us[j])
                        /\ \A k \in 1..(i - 1) : \E j \in 1..Len(us) :
                              ~query_is_subset(m.universe_solver,
                                               us[k], us[j])])
    ELSE Bind(Universe(m), LAMBDA m1 :
         [m1 EXCEPT !.universe_solver.subset =
                        @ \cup {<<m1.ret, us[j]>> : j \in 1..Len(us)}])

\* G.universe_solver.get_union(us): the canonical universe of the union,
\* that is the representative when all arguments are equal, the argument
\* that is a superset of all the others if there is one, else a new
\* universe, superset of each.
get_union(m, us) ==
    IF \A i \in 1..Len(us) : query_are_equal(m.universe_solver, us[1], us[i])
    THEN Return(m, find(m.universe_solver, us[1]))
    ELSE
    IF \E i \in 1..Len(us) : \A j \in 1..Len(us) :
           query_is_subset(m.universe_solver, us[j], us[i])
    THEN Return(m, us[CHOOSE i \in 1..Len(us) :
                        /\ \A j \in 1..Len(us) :
                              query_is_subset(m.universe_solver, us[j], us[i])
                        /\ \A k \in 1..(i - 1) : \E j \in 1..Len(us) :
                              ~query_is_subset(m.universe_solver,
                                               us[j], us[k])])
    ELSE Bind(Universe(m), LAMBDA m1 :
         [m1 EXCEPT !.universe_solver.subset =
                        @ \cup {<<us[j], m1.ret>> : j \in 1..Len(us)}])

\* universes.promise_are_equal(u, v): merges the two classes; refused when
\* the two are proved disjoint.
\* Variant that forgets the disjointness asserted so far.
promise_are_equal_forgetting(m, u, v) ==
    IF proved_disjoint(m.universe_solver, u, v)
    THEN Raise(m, "ValueError")
    ELSE [m EXCEPT !.universe_solver.representative =
                       [w \in DOMAIN @ |->
                           IF @[w] = find(m.universe_solver, v)
                           THEN find(m.universe_solver, u) ELSE @[w]],
                   !.universe_solver.disjoint = {},
                   !.ret = None]

promise_are_equal(m, u, v) ==
    IF proved_disjoint(m.universe_solver, u, v)
    THEN Raise(m, "ValueError")
    ELSE [m EXCEPT !.universe_solver.representative =
                       [w \in DOMAIN @ |->
                           IF @[w] = find(m.universe_solver, v)
                           THEN find(m.universe_solver, u) ELSE @[w]],
                   !.ret = None]

\* universes.promise_is_subset_of(u, v): asserts u a subset of v.
promise_is_subset_of(m, u, v) ==
    [m EXCEPT !.universe_solver.subset = @ \cup {<<u, v>>}, !.ret = None]

\* universes.promise_are_pairwise_disjoint(us): asserts every pair
\* disjoint; refused when two of them are proved equal.
promise_are_pairwise_disjoint(m, us) ==
    IF \E i \in 1..Len(us) : \E j \in (i + 1)..Len(us) :
           query_are_equal(m.universe_solver, us[i], us[j])
    THEN Raise(m, "ValueError")
    ELSE [m EXCEPT !.universe_solver.disjoint =
                       @ \cup {<<us[p[1]], us[p[2]]>> :
                                  p \in {p \in (1..Len(us)) \X (1..Len(us)) :
                                            p[1] < p[2]}},
                   !.ret = None]

\* ----------------------------------------------------------- logical plan
\* The frame a table operator starts with.
PlanFrame ==
    [ table_objects |-> table_objects, universe_solver |-> universe_solver,
      graph |-> graph, lineage |-> lineage, calls |-> <<>>, exc |-> "none",
      ret |-> None ]

\* The universe that the solver function fn returned for us, logged.
log_call(fn, us, m) ==
    IF Ok(m)
    THEN [m EXCEPT !.calls = Append(@, [fn |-> fn, us |-> us,
                                        result_universe |-> m.ret])]
    ELSE m

\* warnings.warn(...)
warn(m) == [m EXCEPT !.calls = Append(@, [fn |-> "warn"])]

\* Table._set_source: _source is a SetOnceProperty, written first; the id
\* column takes the lineage (name, source); a column or a universe takes
\* one only when it has none.  A column object is known by its table and
\* its name.
\* Variant that gives the universe its lineage also when it has one.
set_source_on_universe_again(m, self, source) ==
    IF self \in DOMAIN m.lineage.source THEN Raise(m, "AttributeError")
    ELSE [m EXCEPT
            !.lineage.source = Put(@, self, source),
            !.lineage.column =
                [k \in DOMAIN @ \cup {<<self, "id">>}
                        \cup {<<self, name>> :
                                name \in {m.table_objects[self].columns[i].name
                                    : i \in DOMAIN
                                          m.table_objects[self].columns}} |->
                    IF k = <<self, "id">>
                    THEN [name |-> "id", source |-> source]
                    ELSE IF k \in DOMAIN @ THEN @[k]
                    ELSE [name |-> k[2], source |-> source]],
            !.lineage.universe =
                Put(@, m.table_objects[self].universe, source)]

set_source(m, self, source) ==
    IF self \in DOMAIN m.lineage.source THEN Raise(m, "AttributeError")
    ELSE [m EXCEPT
            !.lineage.source = Put(@, self, source),
            !.lineage.column =
                [k \in DOMAIN @ \cup {<<self, "id">>}
                        \cup {<<self, name>> :
                                name \in {m.table_objects[self].columns[i].name
                                    : i \in DOMAIN
                                          m.table_objects[self].columns}} |->
                    IF k = <<self, "id">>
                    THEN [name |-> "id", source |-> source]
                    ELSE IF k \in DOMAIN @ THEN @[k]
                    ELSE [name |-> k[2], source |-> source]],
            !.lineage.universe =
                IF m.table_objects[self].universe \in DOMAIN @ THEN @
                ELSE Put(@, m.table_objects[self].universe, source)]

\* @contextualized_operator: the call is an operator node of the parse
\* graph, placed once the call has returned its table; the node is the
\* source of the table.
contextualized_operator(name, m) ==
    IF Ok(m)
    THEN set_source(
             [m EXCEPT !.graph = Append(@, [operator |-> name,
                                            output |-> m.ret])],
             m.ret, Len(m.graph) + 1)
    ELSE m

\* Contexts (column.py): kind and universe.
Context(kind, universe) == [kind |-> kind, universe |-> universe]

\* Expressions (expression.py): a leaf ColumnReference(table, name), or one
\* node (kind) over such a reference; dtype is what the type interpreter
\* gives for it.
MaterializedColumn(universe, dtype) ==
    [universe |-> universe, dtype |-> dtype, context |-> "Materialized",
     expression |-> [kind |-> "none", table |-> 0, name |-> "",
                    dtype |-> ""]]
IdColumn(context) ==
    [universe |-> context.universe, dtype |-> "POINTER",
     context |-> context.kind,
     expression |-> [kind |-> "none", table |-> 0, name |-> "",
                     dtype |-> ""]]

\* dict lookups on a list of (name, column) items.
keys(cols) == [i \in 1..Len(cols) |-> cols[i].name]
key_set(cols) == {cols[i].name : i \in 1..Len(cols)}
lookup(cols, name) ==
    cols[CHOOSE i \in 1..Len(cols) : cols[i].name = name].column
\* dict(items): a repeated key keeps its first position and its last value.
RECURSIVE dict(_)
dict(items) ==
    IF items = <<>> THEN <<>>
    ELSE LET init == dict(SubSeq(items, 1, Len(items) - 1))
             item == items[Len(items)]
         IN IF item.name \in key_set(init)
            THEN [i \in 1..Len(init) |->
                     IF init[i].name = item.name THEN item ELSE init[i]]
            ELSE Append(init, item)

\* schema_from_columns(columns): names and dtypes, in the order of columns.
schema_from_columns(cols) ==
    [i \in 1..Len(cols) |->
        [name |-> cols[i].name, dtype |-> cols[i].column.dtype]]

\* Table.__init__: the new object is m.ret.  schema and id_column are
\* optional arguments: <<>> stands for None, <<v>> for v.
Table(m, cols, universe, pk_columns, schema, id_column) ==
    [m EXCEPT !.table_objects =
                  Append(@, [columns |-> dict(cols),
                             universe |-> universe,
                             pk_columns |-> pk_columns,
                             schema |-> IF schema = <<>>
                                        THEN schema_from_columns(dict(cols))
                                        ELSE schema[1],
                             id_column |->
                                 IF id_column = <<>>
                                 THEN IdColumn(Context("Rowwise", universe))
                                 ELSE id_column[1]]),
              !.ret = Len(m.table_objects) + 1]

\* Table._from_schema
from_schema(m, schema) ==
    Bind(Universe(m), LAMBDA m1 :
    Table(m1,
          [i \in 1..Len(schema) |->
              [name |-> schema[i].name,
               column |-> MaterializedColumn(m1.ret, schema[i].dtype)]],
          m1.ret, {}, <<schema>>, <<>>))

\* Table.empty(**kwargs): a table of the schema on a new universe, which is
\* registered as empty.
empty(m, schema) ==
    Bind(from_schema(m, schema), LAMBDA m1 :
    [m1 EXCEPT !.universe_solver.empty =
                    @ \cup {m1.table_objects[m1.ret].universe}])

\* ColumnReference(table=t, column=..., name=name) and its column.
ColumnReference(m, t, name) ==
    [kind |-> "ref", table |-> t, name |-> name,
     dtype |-> IF name = "id" THEN "POINTER"
               ELSE lookup(m.table_objects[t].columns, name).dtype]

\* Table._validate_expression; the column of the reference is the id
\* column of its table or the column of that name.
validate_expression(m, self, expression) ==
    IF m.table_objects[self].universe #
           (IF expression.name = "id"
            THEN m.table_objects[expression.table].id_column
            ELSE lookup(m.table_objects[expression.table].columns,
                        expression.name)).universe
    THEN Raise(m, "ValueError")
    ELSE Return(m, None)

\* Table._eval: the column of an expression in a context.
eval(context, expression) ==
    [universe |-> context.universe, dtype |-> expression.dtype,
     context |-> context.kind, expression |-> expression]

\* Table._wrap_column_in_context
wrap_column_in_context(self, context, column, name) ==
    eval(context, [kind |-> "ref", table |-> self, name |-> name,
                   dtype |-> column.dtype])

\* {name: self._wrap_column_in_context(context, column, name)
\*  for name, column in columns.items()}
wrap_columns(self, context, cols) ==
    [i \in 1..Len(cols) |->
        [name |-> cols[i].name,
         column |-> wrap_column_in_context(self, context, cols[i].column,
                                           cols[i].name)]]

\* Table._with_same_universe
\* Variant that hands the schema of self to the new table.
with_same_universe_schema_of_self(m, self, cols) ==
    Table(m, cols, m.table_objects[self].universe,
          m.table_objects[self].pk_columns, <<m.table_objects[self].schema>>,
          <<IdColumn(Context("Rowwise", m.table_objects[self].universe))>>)

with_same_universe(m, self, cols) ==
    Table(m, cols, m.table_objects[self].universe,
          m.table_objects[self].pk_columns, <<>>,
          <<IdColumn(Context("Rowwise", m.table_objects[self].universe))>>)

\* Table._table_with_context
table_with_context(m, self, context) ==
    Table(m, wrap_columns(self, context, m.table_objects[self].columns),
          context.universe, m.table_objects[self].pk_columns, <<>>,
          <<IdColumn(context)>>)

\* The universe, the columns and the column names of table object t.
U(m, t) == m.table_objects[t].universe
columns_of(m, t) == m.table_objects[t].columns

\* combine_args_kwargs: a name may be repeated only with the same
\* expression.
combine_args_kwargs(m, items) ==
    IF \E i, j \in 1..Len(items) :
           items[i].name = items[j].name /\ items[i].column # items[j].column
    THEN Raise(m, "ValueError")
    ELSE Return(m, dict(items))

\* Table.select; items are the (name, expression) pairs of its arguments.
select(m, self, items) ==
    contextualized_operator("select",
        Bind(combine_args_kwargs(m, items), LAMBDA m1 :
        IF \E i \in 1..Len(m1.ret) :
               ~Ok(validate_expression(m1, self, m1.ret[i].column))
        THEN Raise(m1, "ValueError")
        ELSE with_same_universe(m1, self,
                 [i \in 1..Len(m1.ret) |->
                     [name |-> m1.ret[i].name,
                      column |-> eval(Context("Rowwise", U(m1, self)),
                                      m1.ret[i].column)]])))

\* *table: iter(table) gives the references to its columns, in order;
\* each is passed under its own name.
star(m, t) ==
    [i \in 1..Len(columns_of(m, t)) |->
        [name |-> columns_of(m, t)[i].name,
         column |-> ColumnReference(m, t, columns_of(m, t)[i].name)]]

\* Table.with_columns
with_columns(m, self, items) ==
    Bind(select(m, self, items), LAMBDA m1 :
    select(m1, self, dict(star(m1, self) \o star(m1, m1.ret))))

\* Table.cast_to_types; schema is a list of (name, dtype).
cast_to_types(m, self, schema) ==
    IF \E i \in 1..Len(schema) :
           schema[i].name \notin key_set(columns_of(m, self))
    THEN Raise(m, "ValueError")
    ELSE with_columns(m, self,
             [i \in 1..Len(schema) |->
                 [name |-> schema[i].name,
                  column |-> [kind |-> "cast", table |-> self,
                              name |-> schema[i].name,
                              dtype |-> schema[i].dtype]]])

\* Table.update_types
update_types(m, self, schema) ==
    IF \E i \in 1..Len(schema) :
           schema[i].name \notin key_set(columns_of(m, self))
    THEN Raise(m, "ValueError")
    ELSE with_columns(m, self,
             [i \in 1..Len(schema) |->
                 [name |-> schema[i].name,
                  column |-> [kind |-> "declare_type", table |-> self,
                              name |-> schema[i].name,
                              dtype |-> schema[i].dtype]]])

\* Table.__add__
add(m, self, other) ==
    IF ~query_are_equal(m.universe_solver, U(m, self), U(m, other))
    THEN Raise(m, "ValueError")
    ELSE select(m, self, star(m, self) \o star(m, other))

\* Table.copy
copy(m, self) ==
    contextualized_operator("copy",
        Table(m, wrap_columns(self, Context("Rowwise", U(m, self)),
                              columns_of(m, self)),
              U(m, self), m.table_objects[self].pk_columns, <<>>, <<>>))

\* dt.Optional: Optional of an optional type or of ANY is that type.
Optional(dtype) ==
    CASE dtype = "INT" -> "OPT_INT"
      [] dtype = "BOOL" -> "OPT_BOOL"
      [] dtype = "POINTER" -> "OPT_POINTER"
      [] OTHER -> dtype

\* dt.unoptionalize
unoptionalize(dtype) ==
    CASE dtype = "OPT_INT" -> "INT"
      [] dtype = "OPT_BOOL" -> "BOOL"
      [] dtype = "OPT_POINTER" -> "POINTER"
      [] OTHER -> dtype

\* Table._filter
filter_(m, self, filter_expression) ==
    contextualized_operator("_filter",
        Bind(validate_expression(m, self, filter_expression), LAMBDA m1 :
        Bind(log_call("get_subset", <<U(m1, self)>>,
                      get_subset(m1, U(m1, self))), LAMBDA m2 :
        table_with_context(m2, self, Context("Filter", m2.ret)))))

\* Table.filter
\* Variant without the check of the type of the expression.
filter_any_type(m, self, filter_expression) ==
    filter_(m, self, filter_expression)

filter(m, self, filter_expression) ==
    IF filter_expression.dtype # "BOOL"
    THEN Raise(m, "TypeError")
    ELSE Bind(filter_(m, self, filter_expression), LAMBDA m1 :
         IF /\ filter_expression.kind = "is_not_none"
            /\ filter_expression.table = self
         THEN update_types(m1, m1.ret,
                  << [name |-> filter_expression.name,
                      dtype |-> unoptionalize(
                          lookup(columns_of(m1, self),
                                 filter_expression.name).dtype)] >>)
         ELSE m1)

\* Table.difference
difference(m, self, other) ==
    contextualized_operator("difference",
        Bind(log_call("get_difference", <<U(m, self), U(m, other)>>,
                      get_difference(m, U(m, self), U(m, other))),
             LAMBDA m1 :
        table_with_context(m1, self, Context("Difference", m1.ret))))

\* The universes of self and of the tables of a list.
universes_of(m, self, others) ==
    <<U(m, self)>> \o [i \in 1..Len(others) |-> U(m, others[i])]

\* Table.intersect
intersect(m, self, others) ==
    contextualized_operator("intersect",
        Bind(log_call("get_intersection", universes_of(m, self, others),
                      get_intersection(m, universes_of(m, self, others))),
             LAMBDA m1 :
        table_with_context(m1, self,
            IF \E i \in 1..(Len(others) + 1) :
                   universes_of(m, self, others)[i] = m1.ret
            THEN Context("Restrict", m1.ret)
            ELSE Context("Intersect", m1.ret))))

\* Table.restrict
\* Variant without the subset precondition.
restrict_unchecked(m, self, other) ==
    contextualized_operator("restrict",
        Table(m, wrap_columns(self, Context("Restrict", U(m, other)),
                              columns_of(m, self)),
              U(m, other), m.table_objects[self].pk_columns, <<>>,
              <<IdColumn(Context("Restrict", U(m, other)))>>))

restrict(m, self, other) ==
    IF ~query_is_subset(m.universe_solver, U(m, other), U(m, self))
    THEN Raise(m, "ValueError")
    ELSE contextualized_operator("restrict",
        Table(m, wrap_columns(self, Context("Restrict", U(m, other)),
                              columns_of(m, self)),
              U(m, other), m.table_objects[self].pk_columns, <<>>,
              <<IdColumn(Context("Restrict", U(m, other)))>>))

\* Table._ix
ix_(m, self, key_expression, optional) ==
    contextualized_operator("_ix",
        table_with_context(m, self,
            Context("Ix", U(m, key_expression.table))))

\* Table.ix (context=None) for an expression that is a reference to a
\* column of one table: that table is the context, and the desugaring that
\* restricts universes to the context leaves a reference to the context
\* itself as it is.  dt.dtype_issubclass(key_dtype, Optional(POINTER)) holds
\* for POINTER and for Optional(POINTER).
\* Variant that, with optional=True, accepts only an optional pointer.
ix_optional_key_only(m, self, expression, optional) ==
    Bind(select(m, expression.table,
                <<[name |-> "tmp", column |-> expression]>>), LAMBDA m1 :
    IF \/ optional /\ expression.dtype # "OPT_POINTER"
       \/ ~optional /\ expression.dtype # "POINTER"
    THEN Raise(m1, "TypeError")
    ELSE Bind(IF optional /\ expression.dtype = "OPT_POINTER"
              THEN update_types(m1, self,
                       [i \in 1..Len(columns_of(m1, self)) |->
                           [name |-> columns_of(m1, self)[i].name,
                            dtype |-> Optional(
                                m1.table_objects[self].schema[
                                    CHOOSE j \in 1..Len(columns_of(m1, self)) :
                                        m1.table_objects[self].schema[j].name
                                            = columns_of(m1, self)[i].name
                                ].dtype)]])
              ELSE Return(m1, self), LAMBDA m2 :
         ix_(m2, m2.ret, ColumnReference(m2, m1.ret, "tmp"), optional)))

\* Variant that never makes the columns optional.
ix_types_kept(m, self, expression, optional) ==
    Bind(select(m, expression.table,
                <<[name |-> "tmp", column |-> expression]>>), LAMBDA m1 :
    IF \/ optional /\ expression.dtype \notin {"POINTER", "OPT_POINTER"}
       \/ ~optional /\ expression.dtype # "POINTER"
    THEN Raise(m1, "TypeError")
    ELSE ix_(m1, self, ColumnReference(m1, m1.ret, "tmp"), optional))

ix(m, self, expression, optional) ==
    Bind(select(m, expression.table,
                <<[name |-> "tmp", column |-> expression]>>), LAMBDA m1 :
    IF \/ optional /\ expression.dtype \notin {"POINTER", "OPT_POINTER"}
       \/ ~optional /\ expression.dtype # "POINTER"
    THEN Raise(m1, "TypeError")
    ELSE Bind(IF optional /\ expression.dtype = "OPT_POINTER"
              THEN update_types(m1, self,
                       [i \in 1..Len(columns_of(m1, self)) |->
                           [name |-> columns_of(m1, self)[i].name,
                            dtype |-> Optional(
                                m1.table_objects[self].schema[
                                    CHOOSE j \in 1..Len(columns_of(m1, self)) :
                                        m1.table_objects[self].schema[j].name
                                            = columns_of(m1, self)[i].name
                                ].dtype)]])
              ELSE Return(m1, self), LAMBDA m2 :
         ix_(m2, m2.ret, ColumnReference(m2, m1.ret, "tmp"), optional)))

\* dt.types_lca
types_lca(a, b) ==
    IF a = b THEN a
    ELSE IF Optional(a) = Optional(b) THEN Optional(a) ELSE "ANY"

\* functools.reduce(dt.types_lca, [dtype of key in each of others], dtype)
RECURSIVE reduce_types_lca(_, _, _, _)
reduce_types_lca(m, others, key, dtype) ==
    IF others = <<>> THEN dtype
    ELSE reduce_types_lca(m, Tail(others), key,
                          types_lca(dtype,
                              lookup(columns_of(m, others[1]), key).dtype))

\* [other.cast_to_types(**schema) for other in others]: m.ret lists `done`
\* and then the casts of `others`.
RECURSIVE cast_all(_, _, _, _)
cast_all(m, others, schema, done) ==
    IF others = <<>> THEN Return(m, done)
    ELSE Bind(cast_to_types(m, others[1], schema), LAMBDA m1 :
         cast_all(m1, Tail(others), schema, Append(done, m1.ret)))

\* Table._concat
\* Variant without the disjointness precondition.
concat_unchecked_(m, self, others) ==
    contextualized_operator("_concat",
        Bind(log_call("get_union", universes_of(m, self, others),
                      get_union(m, universes_of(m, self, others))),
             LAMBDA m1 :
        Table(m1, wrap_columns(self, Context("ConcatUnsafe", m1.ret),
                               columns_of(m1, self)),
              m1.ret, m1.table_objects[self].pk_columns, <<>>,
              <<IdColumn(Context("ConcatUnsafe", m1.ret))>>)))

\* Variant that accepts only universes asserted disjoint pair by pair.
concat_asserted_pairs_(m, self, others) ==
    IF \E i, j \in 1..(1 + Len(others)) :
           /\ i < j
           /\ <<universes_of(m, self, others)[i],
                universes_of(m, self, others)[j]>>
                 \notin m.universe_solver.disjoint
    THEN Raise(m, "ValueError")
    ELSE concat_unchecked_(m, self, others)

concat_(m, self, others) ==
    IF ~query_are_disjoint(m.universe_solver, universes_of(m, self, others))
    THEN Raise(m, "ValueError")
    ELSE contextualized_operator("_concat",
        Bind(log_call("get_union", universes_of(m, self, others),
                      get_union(m, universes_of(m, self, others))),
             LAMBDA m1 :
        Table(m1, wrap_columns(self, Context("ConcatUnsafe", m1.ret),
                               columns_of(m1, self)),
              m1.ret, m1.table_objects[self].pk_columns, <<>>,
              <<IdColumn(Context("ConcatUnsafe", m1.ret))>>)))

\* Table.concat
concat(m, self, others) ==
    IF \E i \in 1..Len(others) : key_set(columns_of(m, others[i]))
           # key_set(columns_of(m, self))
    THEN Raise(m, "ValueError")
    ELSE Bind(cast_all(m, <<self>> \o others,
                  [i \in 1..Len(columns_of(m, self)) |->
                      [name |-> columns_of(m, self)[i].name,
                       dtype |-> reduce_types_lca(m, others,
                                     columns_of(m, self)[i].name,
                                     columns_of(m, self)[i].column.dtype)]],
                  <<>>), LAMBDA m1 :
         concat_(m1, Head(m1.ret), Tail(m1.ret)))

\* The schema update_cells and update_rows cast their arguments to: the
\* lca of the two dtypes for every key of table t.
lca_schema(m, self, other, t) ==
    [i \in 1..Len(columns_of(m, t)) |->
        [name |-> columns_of(m, t)[i].name,
         dtype |-> types_lca(
                       lookup(columns_of(m, self),
                              columns_of(m, t)[i].name).dtype,
                       lookup(columns_of(m, other),
                              columns_of(m, t)[i].name).dtype)]]

\* Table._update_cells
\* Variant without the subset precondition.
update_cells_unchecked_(m, self, other) ==
    contextualized_operator("_update_cells",
        Table(m, wrap_columns(self, Context("UpdateCells", U(m, self)),
                              columns_of(m, self)),
              U(m, self), m.table_objects[self].pk_columns, <<>>,
              <<IdColumn(Context("UpdateCells", U(m, self)))>>))

update_cells_(m, self, other) ==
    IF ~query_is_subset(m.universe_solver, U(m, other), U(m, self))
    THEN Raise(m, "ValueError")
    ELSE contextualized_operator("_update_cells",
        Table(m, wrap_columns(self, Context("UpdateCells", U(m, self)),
                              columns_of(m, self)),
              U(m, self), m.table_objects[self].pk_columns, <<>>,
              <<IdColumn(Context("UpdateCells", U(m, self)))>>))

\* Table.update_cells
update_cells(m, self, other) ==
    IF key_set(columns_of(m, other)) \ key_set(columns_of(m, self)) # {}
    THEN Raise(m, "ValueError")
    ELSE IF U(m, self) = U(m, other)
    THEN with_columns(warn(m), self, star(m, other))
    ELSE Bind(cast_all(m, <<self, other>>,
                       lca_schema(m, self, other, other), <<>>), LAMBDA m1 :
         update_cells_(m1, m1.ret[1], m1.ret[2]))

\* Table._update_rows
\* Variant with the two context classes exchanged.
update_rows_contexts_exchanged_(m, self, other) ==
    contextualized_operator("_update_rows",
        Bind(log_call("get_union", <<U(m, self), U(m, other)>>,
                      get_union(m, <<U(m, self), U(m, other)>>)),
             LAMBDA m1 :
        Table(m1,
              wrap_columns(self,
                  Context(IF m1.ret = U(m1, self)
                          THEN "UpdateRows" ELSE "UpdateCells", m1.ret),
                  columns_of(m1, self)),
              m1.ret, m1.table_objects[self].pk_columns, <<>>,
              <<IdColumn(Context(IF m1.ret = U(m1, self)
                                 THEN "UpdateRows" ELSE "UpdateCells",
                                 m1.ret))>>)))

update_rows_(m, self, other) ==
    contextualized_operator("_update_rows",
        Bind(log_call("get_union", <<U(m, self), U(m, other)>>,
                      get_union(m, <<U(m, self), U(m, other)>>)),
             LAMBDA m1 :
        Table(m1,
              wrap_columns(self,
                  Context(IF m1.ret = U(m1, self)
                          THEN "UpdateCells" ELSE "UpdateRows", m1.ret),
                  columns_of(m1, self)),
              m1.ret, m1.table_objects[self].pk_columns, <<>>,
              <<IdColumn(Context(IF m1.ret = U(m1, self)
                                 THEN "UpdateCells" ELSE "UpdateRows",
                                 m1.ret))>>)))

\* Table.update_rows
update_rows(m, self, other) ==
    IF key_set(columns_of(m, other))
           # key_set(columns_of(m, self))
    THEN Raise(m, "ValueError")
    ELSE IF query_is_subset(m.universe_solver, U(m, self), U(m, other))
    THEN Return(warn(m), other)
    ELSE Bind(cast_all(m, <<self, other>>,
                       lca_schema(m, self, other, self), <<>>), LAMBDA m1 :
         update_rows_(m1, m1.ret[1], m1.ret[2]))

\* Table._unsafe_promise_universe
unsafe_promise_universe(m, self, other) ==
    contextualized_operator("_unsafe_promise_universe",
        Table(m, wrap_columns(self,
                              Context("PromiseSameUniverse", U(m, other)),
                              columns_of(m, self)),
              U(m, other), m.table_objects[self].pk_columns, <<>>,
              <<IdColumn(Context("PromiseSameUniverse", U(m, other)))>>))

\* Table.with_universe_of
\* Variant that asks the solver whether the two universes are equal.
with_universe_of_solver(m, self, other) ==
    IF query_are_equal(m.universe_solver, U(m, self), U(m, other))
    THEN copy(m, self)
    ELSE Bind(promise_are_equal(m, U(m, self), U(m, other)), LAMBDA m1 :
         unsafe_promise_universe(m1, self, other))

with_universe_of(m, self, other) ==
    IF U(m, self) = U(m, other)
    THEN copy(m, self)
    ELSE Bind(promise_are_equal(m, U(m, self), U(m, other)), LAMBDA m1 :
         unsafe_promise_universe(m1, self, other))

\* Table._with_new_index
with_new_index(m, self, new_index, pk_columns) ==
    contextualized_operator("_with_new_index",
        Bind(validate_expression(m, self, new_index), LAMBDA m1 :
        IF new_index.dtype # "POINTER"
        THEN Raise(m1, "TypeError")
        ELSE Bind(Universe(m1), LAMBDA m2 :
             Table(m2, wrap_columns(self, Context("Reindex", m2.ret),
                                    columns_of(m2, self)),
                   m2.ret, pk_columns, <<>>,
                   <<IdColumn(Context("Reindex", m2.ret))>>))))

\* Table.with_id
with_id(m, self, new_index) == with_new_index(m, self, new_index, {})

\* Table.with_id_from(arg, *constants), arg a column reference and
\* `constants` the arguments that are not column references; pk_columns
\* are kept only when every argument is a column reference.
with_id_from(m, self, arg, constants) ==
    Bind(select(m, self,
                << [name |-> "ref_column",
                    column |-> [kind |-> "pointer_from", table |-> arg.table,
                                name |-> arg.name, dtype |-> "POINTER"]] >>),
         LAMBDA m1 :
    with_new_index(m1, self, ColumnReference(m1, m1.ret, "ref_column"),
                   IF constants = <<>> THEN {arg.name} ELSE {}))

\* Table.concat_reindex; `rest` are self and the others still to be
\* reindexed, `reindexed` the tables table.with_id_from(table.id, i) built
\* so far.
\* Variant that does not promise the reindexed universes disjoint.
RECURSIVE concat_reindex_unpromised(_, _, _)
concat_reindex_unpromised(m, rest, reindexed) ==
    IF rest # <<>>
    THEN Bind(with_id_from(m, rest[1], ColumnReference(m, rest[1], "id"),
                           <<Len(reindexed)>>), LAMBDA m1 :
         concat_reindex_unpromised(m1, Tail(rest),
                                   Append(reindexed, m1.ret)))
    ELSE concat(m, Head(reindexed), Tail(reindexed))

RECURSIVE concat_reindex(_, _, _)
concat_reindex(m, rest, reindexed) ==
    IF rest # <<>>
    THEN Bind(with_id_from(m, rest[1], ColumnReference(m, rest[1], "id"),
                           <<Len(reindexed)>>), LAMBDA m1 :
         concat_reindex(m1, Tail(rest), Append(reindexed, m1.ret)))
    ELSE Bind(promise_are_pairwise_disjoint(m,
                  [i \in 1..Len(reindexed) |-> U(m, reindexed[i])]),
              LAMBDA m1 :
         concat(m1, Head(reindexed), Tail(reindexed)))

\* The columns left after popping the names of a list, each pop raising
\* KeyError on a name that is not there.
RECURSIVE pop_all(_, _, _)
pop_all(m, cols, names) ==
    IF names = <<>> THEN Return(m, cols)
    ELSE IF names[1] \notin key_set(cols) THEN Raise(m, "KeyError")
    ELSE pop_all(m, SelectSeq(cols, LAMBDA c : c.name # names[1]),
                 Tail(names))

\* Table.rename_columns; mapping lists the (new_name, old_name) pairs of
\* kwargs, new names distinct.
rename_columns(m, self, mapping) ==
    contextualized_operator("rename_columns",
        IF \E i \in 1..Len(mapping) :
               mapping[i].old_name \notin key_set(columns_of(m, self))
        THEN Raise(m, "ValueError")
        ELSE Bind(pop_all(m, columns_of(m, self),
                          [i \in 1..Len(mapping) |-> mapping[i].old_name]),
                  LAMBDA m1 :
             with_same_universe(m1, self,
                 LET renamed_columns ==
                         dict(m1.ret \o
                              [i \in 1..Len(mapping) |->
                                  [name |-> mapping[i].new_name,
                                   column |-> lookup(columns_of(m, self),
                                                     mapping[i].old_name)]])
                 IN [i \in 1..Len(renamed_columns) |->
                        [name |-> renamed_columns[i].name,
                         column |-> wrap_column_in_context(self,
                             Context("Rowwise", U(m, self)),
                             renamed_columns[i].column,
                             IF \E j \in 1..Len(mapping) :
                                    mapping[j].new_name
                                        = renamed_columns[i].name
                             THEN mapping[CHOOSE j \in 1..Len(mapping) :
                                              mapping[j].new_name
                                                  = renamed_columns[i].name
                                         ].old_name
                             ELSE renamed_columns[i].name)]])))

\* Table.rename_by_dict; names_mapping lists the (old_name, new_name) items
\* of the dictionary in order.  self[old_name] raises KeyError for a name
\* that is not a column; the keyword arguments are a dict keyed by new_name.
rename_by_dict(m, self, names_mapping) ==
    IF \E i \in 1..Len(names_mapping) :
           names_mapping[i].old_name \notin key_set(columns_of(m, self))
    THEN Raise(m, "KeyError")
    ELSE LET kwargs == dict([i \in 1..Len(names_mapping) |->
                                [name |-> names_mapping[i].new_name,
                                 column |-> names_mapping[i].old_name]])
         IN rename_columns(m, self,
                [i \in 1..Len(kwargs) |->
                    [new_name |-> kwargs[i].name,
                     old_name |-> kwargs[i].column]])

\* Table.without
without(m, self, names) ==
    contextualized_operator("without",
        Bind(pop_all(m, columns_of(m, self), names), LAMBDA m1 :
        with_same_universe(m1, self,
            wrap_columns(self, Context("Rowwise", U(m1, self)), m1.ret))))

\* Table._having
\* Variant that takes the subset of the universe of self.
having_subset_of_self_(m, self, indexer) ==
    contextualized_operator("_having",
        Bind(log_call("get_subset", <<U(m, self)>>,
                      get_subset(m, U(m, self))), LAMBDA m1 :
        table_with_context(m1, self, Context("Having", m1.ret))))

having_(m, self, indexer) ==
    contextualized_operator("_having",
        Bind(log_call("get_subset", <<U(m, indexer.table)>>,
                      get_subset(m, U(m, indexer.table))), LAMBDA m1 :
        table_with_context(m1, self, Context("Having", m1.ret))))

\* rets.append(self._having(indexer)) for each indexer: m.ret lists `done`
\* and then the new tables.
RECURSIVE having_all(_, _, _, _)
having_all(m, self, indexers, done) ==
    IF indexers = <<>> THEN Return(m, done)
    ELSE Bind(having_(m, self, indexers[1]), LAMBDA m1 :
         having_all(m1, self, Tail(indexers), Append(done, m1.ret)))

\* Table.having
\* Variant that hands out a copy when there is no indexer.
having_copy_of_self(m, self, indexers) ==
    Bind(having_all(m, self, indexers, <<>>), LAMBDA m1 :
    IF Len(m1.ret) = 0 THEN copy(m1, self)
    ELSE IF Len(m1.ret) = 1 THEN Return(m1, m1.ret[1])
    ELSE intersect(m1, Head(m1.ret), Tail(m1.ret)))

having(m, self, indexers) ==
    Bind(having_all(m, self, indexers, <<>>), LAMBDA m1 :
    IF Len(m1.ret) = 0 THEN Return(m1, self)
    ELSE IF Len(m1.ret) = 1 THEN Return(m1, m1.ret[1])
    ELSE intersect(m1, Head(m1.ret), Tail(m1.ret)))

\* Table._flatten
flatten_(m, self, flatten_name) ==
    contextualized_operator("_flatten",
        Bind(Universe(m), LAMBDA m1 :
        Table(m1,
              << [name |-> flatten_name,
                  column |-> MaterializedColumn(m1.ret, "ANY")] >>
              \o wrap_columns(self, Context("Flatten", m1.ret),
                     SelectSeq(columns_of(m1, self),
                               LAMBDA c : c.name # flatten_name)),
              m1.ret, {}, <<>>, <<IdColumn(Context("Flatten", m1.ret))>>)))

\* Table.flatten
\* Table.from_columns (static); the table of the first argument is the one
\* select is called on.
from_columns(m, items) ==
    Bind(combine_args_kwargs(m, items), LAMBDA m1 :
    IF m1.ret = <<>> THEN Raise(m1, "ValueError")
    ELSE IF \E i \in 1..Len(m1.ret) :
                ~query_are_equal(m1.universe_solver,
                                 U(m1, m1.ret[1].column.table),
                                 U(m1, m1.ret[i].column.table))
    THEN Raise(m1, "ValueError")
    ELSE select(m1, m1.ret[1].column.table, items))

flatten(m, self, items) ==
    Bind(select(m, self, items), LAMBDA m1 :
    Bind(combine_args_kwargs(m1, items), LAMBDA m2 :
    IF m2.ret = <<>> THEN Raise(m2, "ValueError")
    ELSE flatten_(m2, m1.ret, m2.ret[1].name)))

\* Table._sort_columns_by_other
sort_columns_by_other(m, self, other) ==
    IF key_set(columns_of(m, self))
           # key_set(columns_of(m, other))
    THEN Raise(m, "AssertionError")
    ELSE [m EXCEPT !.table_objects[self].columns =
                       [i \in 1..Len(columns_of(m, other)) |->
                           [name |-> columns_of(m, other)[i].name,
                            column |-> lookup(columns_of(m, self),
                                              columns_of(m, other)[i].name)]],
                   !.ret = None]

\* The schemas of the input tables of the plan.
Schemas ==
    << << [name |-> "a", dtype |-> "INT"], [name |-> "b", dtype |-> "BOOL"] >>,
       << [name |-> "b", dtype |-> "BOOL"],
          [name |-> "a", dtype |-> "OPT_INT"] >>,
       << [name |-> "c", dtype |-> "INT"],
          [name |-> "p", dtype |-> "OPT_POINTER"] >> >>

\* One input table per schema, each on a universe of its own.
RECURSIVE input_tables(_, _)
input_tables(m, schemas) ==
    IF schemas = <<>> THEN m
    ELSE input_tables(from_schema(m, schemas[1]), Tail(schemas))

\* The plan before any operator call: the input tables, built when no
\* Table and no Universe existed and the parse graph was empty.
InitialPlan ==
    input_tables(
        [ table_objects |-> <<>>,
          universe_solver |-> [representative |-> <<>>, subset |-> {},
                               disjoint |-> {}, empty |-> {}],
          graph |-> <<>>,
          lineage |-> [source |-> EmptyMap, column |-> EmptyMap,
                       universe |-> EmptyMap],
          calls |-> <<>>, exc |-> "none", ret |-> None ],
        Schemas)

\* ---------------------------------------------------------------- actions
Init ==
    /\ universes = EmptyMap
    /\ columns = EmptyMap
    /\ legacy_tables = EmptyMap
    /\ tables = EmptyMap
    /\ storages = EmptyMap
    /\ evaluators = EmptyMap
    /\ computers = <<>>
    /\ nextId = 1
    /\ table_universe_calls = [u \in Universes |-> <<>>]
    /\ factory_calls = [x \in Contexts |-> 0]
    /\ issued = <<>>
    /\ table_objects = InitialPlan.table_objects
    /\ universe_solver = InitialPlan.universe_solver
    /\ graph = InitialPlan.graph
    /\ lineage = InitialPlan.lineage
    /\ user_tables = [i \in 1..Len(Schemas) |-> i]
    /\ operator_calls = 0
    /\ promise_calls = 0
    /\ callback = [kind |-> "none"]
    /\ wait = [pc |-> "idle"]
    /\ last = [op |-> "init", arg |-> NoValue, exc |-> "none",
               ret |-> NoValue, calls |-> <<>>]

\* The public call op(arg) ended in frame m.  The value returned is recorded
\* under the name of its kind (tag); a call that raised returns nothing.
Commit(m, op, arg, tag) ==
    /\ m.nextId <= MaxHandles + 1
    /\ universes' = m.universes
    /\ columns' = m.columns
    /\ legacy_tables' = m.legacy_tables
    /\ tables' = m.tables
    /\ storages' = m.storages
    /\ evaluators' = m.evaluators
    /\ computers' = m.computers
    /\ nextId' = m.nextId
    /\ table_universe_calls' = m.table_universe_calls
    /\ factory_calls' = m.factory_calls
    /\ issued' = m.issued
    /\ UNCHANGED << table_objects, universe_solver, graph, lineage,
                    user_tables, operator_calls, promise_calls, callback,
                    wait >>
    /\ last' = [op |-> op, arg |-> arg, exc |-> m.exc,
                ret |-> IF Ok(m) THEN tag :> m.ret ELSE NoValue,
                calls |-> m.calls]

GetUniverse ==
    \E u \in Universes :
        Commit(get_universe(Frame, u), "get_universe",
               [universe |-> u], "engine_universe")

SetUniverse ==
    \E u \in Universes, h \in {1, 2} :
        Commit(set_universe(Frame, u, h), "set_universe",
               [universe |-> u, engine_universe |-> h], "none")

GetColumn ==
    \E c \in {"c1", "c2"} :
        Commit(get_column(Frame, c), "get_column",
               [column |-> c], "engine_column")

HasColumn ==
    \E c \in {"c1", "c2"} :
        Commit(has_column(Frame, c), "has_column", [column |-> c], "bool")

SetColumn ==
    \E c \in {"c1"},
       h \in { EngineColumn(-1, 1), EngineColumn(-2, 1),
               EngineColumn(-1, 2) } :
        Commit(set_column(Frame, c, h), "set_column",
               [column |-> c, engine_column |-> h], "none")

SetTable ==
    \E s \in Storages, t \in { EngineTable(-1, 1) } :
        Commit(set_table(Frame, s, t), "set_table",
               [storage |-> s, engine_table |-> t], "none")

CreateTable ==
    \E u \in Universes, s \in Storages :
        Commit(create_table(Frame, u, s), "create_table",
               [universe |-> u, storage |-> s], "none")

SetLegacyTable ==
    \E t \in LogicalTables,
       v \in { LegacyTable(1, <<EngineColumn(-1, 1), EngineColumn(-2, 1)>>),
               LegacyTable(2, <<EngineColumn(-1, 2)>>) } :
        Commit(set_legacy_table(Frame, t, v), "set_legacy_table",
               [table |-> t, legacy_table |-> v], "none")

GetLegacyTable ==
    \E t \in LogicalTables :
        Commit(get_legacy_table(Frame, t), "get_legacy_table",
               [table |-> t], "legacy_table")

HasLegacyTable ==
    \E t \in LogicalTables :
        Commit(has_legacy_table(Frame, t), "has_legacy_table",
               [table |-> t], "bool")

GetContextTable ==
    \E t \in { [universe |-> "u1", columns |-> <<"c1">>] } :
        Commit(get_context_table(Frame, t), "get_context_table",
               [context_table |-> t], "legacy_table")

AddComputerLogic ==
    /\ Len(computers) < MaxComputers
    /\ \E cb \in {"f", "g"} :
        Commit(add_computer_logic(Frame, cb), "add_computer_logic",
               [callback |-> cb], "id")

GetComputerLogic ==
    \E id \in {-1, 0, 1, 2} :
        Commit(get_computer_logic(Frame, id), "get_computer_logic",
               [id |-> id], "callback")

GetOrCreateEvaluator ==
    \E x \in Contexts, f \in {"A", "B"} :
        Commit(get_or_create_evaluator(Frame, x, f),
               "get_or_create_evaluator",
               [context |-> x, factory |-> f], "evaluator")

\* ---- composing the plan
\* The tables the user holds, and the expressions the user may write over
\* them.
UserTables == {user_tables[i] : i \in DOMAIN user_tables}
References ==
    {ColumnReference(PlanFrame, t[1], t[2]) :
        t \in {t \in UserTables \X {"a", "b", "c"} :
                  t[2] \in key_set(table_objects[t[1]].columns)}}
IdReferences == {ColumnReference(PlanFrame, t, "id") : t \in UserTables}
\* A positional argument e of select or flatten is passed as the pair
\* (e.name, e).

\* The table operator call op(a) ended in frame m.
CommitPlan(m, op, a, tag) ==
    /\ IF tag = "promise"
       THEN /\ promise_calls < MaxPromises
            /\ promise_calls' = promise_calls + 1
            /\ UNCHANGED operator_calls
       ELSE /\ operator_calls < MaxOperatorCalls
            /\ operator_calls' = operator_calls + 1
            /\ UNCHANGED promise_calls
    /\ table_objects' = m.table_objects
    /\ universe_solver' = m.universe_solver
    /\ graph' = m.graph
    /\ lineage' = m.lineage
    /\ user_tables' = IF Ok(m) /\ tag = "table"
                      THEN Append(user_tables, m.ret) ELSE user_tables
    /\ UNCHANGED << universes, columns, legacy_tables, tables, storages,
                    evaluators, computers, nextId, table_universe_calls,
                    factory_calls, issued, callback, wait >>
    /\ last' = [op |-> op, arg |-> a, exc |-> m.exc,
                ret |-> IF Ok(m) THEN tag :> m.ret ELSE NoValue,
                calls |-> m.calls]

Select ==
    \E self \in UserTables, e \in References :
        CommitPlan(select(PlanFrame, self,
                          <<[name |-> e.name, column |-> e]>>),
                   "select",
                   [self |-> self,
                    items |-> <<[name |-> e.name, column |-> e]>>], "table")

Add ==
    \E self \in UserTables, other \in UserTables :
        CommitPlan(add(PlanFrame, self, other), "__add__",
                   [self |-> self, other |-> other], "table")

Filter ==
    \E self \in UserTables,
       e \in References
               \cup {[r EXCEPT !.kind = "is_not_none", !.dtype = "BOOL"] :
                        r \in {ref \in References : ref.name = "a"}} :
        CommitPlan(filter(PlanFrame, self, e), "filter",
                   [self |-> self, expression |-> e], "table")

Ix ==
    \E self \in UserTables, optional \in BOOLEAN,
       e \in IdReferences \cup {ref \in References : ref.name = "a"}
               \cup {ColumnReference(PlanFrame, t, "p") :
                        t \in {t \in UserTables :
                                 "p" \in key_set(table_objects[t].columns)}} :
        CommitPlan(ix(PlanFrame, self, e, optional), "ix",
                   [self |-> self, expression |-> e, optional |-> optional],
                   "table")

Difference ==
    \E self \in UserTables, other \in UserTables :
        CommitPlan(difference(PlanFrame, self, other), "difference",
                   [self |-> self, other |-> other], "table")

Intersect ==
    \E self \in UserTables, other \in UserTables :
        CommitPlan(intersect(PlanFrame, self, <<other>>), "intersect",
                   [self |-> self, others |-> <<other>>], "table")

Restrict ==
    \E self \in UserTables, other \in UserTables :
        CommitPlan(restrict(PlanFrame, self, other), "restrict",
                   [self |-> self, other |-> other], "table")

Copy ==
    \E self \in UserTables :
        CommitPlan(copy(PlanFrame, self), "copy", [self |-> self], "table")

Concat ==
    \E self \in UserTables,
       others \in {<<>>} \cup {<<t>> : t \in UserTables} :
        CommitPlan(concat(PlanFrame, self, others), "concat",
                   [self |-> self, others |-> others], "table")

ConcatReindex ==
    \E self \in UserTables,
       others \in {<<>>} \cup {<<t>> : t \in UserTables} :
        CommitPlan(concat_reindex(PlanFrame, <<self>> \o others, <<>>),
                   "concat_reindex",
                   [self |-> self, others |-> others], "table")

UpdateCells ==
    \E self \in UserTables, other \in UserTables :
        CommitPlan(update_cells(PlanFrame, self, other), "update_cells",
                   [self |-> self, other |-> other], "table")

UpdateRows ==
    \E self \in UserTables, other \in UserTables :
        CommitPlan(update_rows(PlanFrame, self, other), "update_rows",
                   [self |-> self, other |-> other], "table")

WithUniverseOf ==
    \E self \in UserTables, other \in UserTables :
        CommitPlan(with_universe_of(PlanFrame, self, other),
                   "with_universe_of",
                   [self |-> self, other |-> other], "table")

WithId ==
    \E self \in UserTables,
       e \in IdReferences \cup {ref \in References : ref.name = "a"} :
        CommitPlan(with_id(PlanFrame, self, e), "with_id",
                   [self |-> self, expression |-> e], "table")

WithIdFrom ==
    \E self \in UserTables, e \in {ref \in References : ref.name = "a"} :
        CommitPlan(with_id_from(PlanFrame, self, e, <<>>), "with_id_from",
                   [self |-> self, expression |-> e], "table")

RenameByDict ==
    \E self \in UserTables,
       names_mapping \in
           { << [old_name |-> "a", new_name |-> "c"] >>,
             << [old_name |-> "a", new_name |-> "b"] >>,
             << [old_name |-> "c", new_name |-> "a"] >>,
             << [old_name |-> "a", new_name |-> "b"],
                [old_name |-> "b", new_name |-> "a"] >> } :
        CommitPlan(rename_by_dict(PlanFrame, self, names_mapping),
                   "rename_by_dict",
                   [self |-> self,
                    mapping |-> [i \in 1..Len(names_mapping) |->
                                    [new_name |-> names_mapping[i].new_name,
                                     old_name |->
                                         names_mapping[i].old_name]]],
                   "table")

RenameColumns ==
    \E self \in UserTables,
       mapping \in {<< [new_name |-> "c", old_name |-> "a"] >>,
                    << [new_name |-> "b", old_name |-> "a"] >>,
                    << [new_name |-> "a", old_name |-> "c"] >>} :
        CommitPlan(rename_columns(PlanFrame, self, mapping), "rename_columns",
                   [self |-> self, mapping |-> mapping], "table")

Without ==
    \E self \in UserTables, names \in {<<"a">>, <<"a", "b">>} :
        CommitPlan(without(PlanFrame, self, names), "without",
                   [self |-> self, names |-> names], "table")

Having ==
    \E self \in UserTables,
       indexers \in {<<>>} \cup {<<e>> : e \in IdReferences}
                   \cup {<<e, e>> : e \in IdReferences} :
        CommitPlan(having(PlanFrame, self, indexers), "having",
                   [self |-> self, indexers |-> indexers], "table")

FromColumns ==
    \E items \in {<<>>}
           \cup {<<[name |-> e.name, column |-> e]>> : e \in References}
           \cup {<<[name |-> "a", column |-> e], [name |-> "b", column |-> f]>> :
                    e \in {ref \in References : ref.name = "a"},
                    f \in {ref \in References : ref.name = "b"}} :
        CommitPlan(from_columns(PlanFrame, items), "from_columns",
                   [items |-> items], "table")

Flatten ==
    \E self \in UserTables,
       items \in {<<>>} \cup {<<[name |-> e.name, column |-> e]>> :
                                 e \in {ref \in References : ref.name = "a"}} :
        CommitPlan(flatten(PlanFrame, self, items), "flatten",
                   [self |-> self, items |-> items], "table")

\* Table.empty(a=int, b=bool)
Empty ==
    CommitPlan(empty(PlanFrame, Schemas[1]), "empty",
               [schema |-> Schemas[1]], "table")

\* pw.universes.promise_*(self, other), on the input tables; a promise is
\* no call of an operator.
PromiseAreEqual ==
    \E self \in UserTables, other \in UserTables :
        self < other /\ other <= Len(Schemas) /\
        CommitPlan(promise_are_equal(PlanFrame, U(PlanFrame, self),
                                     U(PlanFrame, other)),
                   "promise_are_equal",
                   [self |-> self, other |-> other], "promise")

PromiseIsSubsetOf ==
    \E self \in UserTables, other \in UserTables :
        self # other /\ self <= Len(Schemas) /\ other <= Len(Schemas) /\
        CommitPlan(promise_is_subset_of(PlanFrame, U(PlanFrame, self),
                                        U(PlanFrame, other)),
                   "promise_is_subset_of",
                   [self |-> self, other |-> other], "promise")

PromiseArePairwiseDisjoint ==
    \E self \in UserTables, other \in UserTables :
        self < other /\ other <= Len(Schemas) /\
        CommitPlan(promise_are_pairwise_disjoint(PlanFrame,
                       <<U(PlanFrame, self), U(PlanFrame, other)>>),
                   "promise_are_pairwise_disjoint",
                   [self |-> self, other |-> other], "promise")

\* table._set_source(source), source a handle of no node of the graph.
SetSource ==
    \E self \in UserTables :
        CommitPlan(set_source(PlanFrame, self, 0), "_set_source",
                   [self |-> self], "none")

SortColumnsByOther ==
    \E self \in UserTables, other \in UserTables :
        CommitPlan(sort_columns_by_other(PlanFrame, self, other),
                   "_sort_columns_by_other",
                   [self |-> self, other |-> other], "none")

\* The lowering protocol: resolving and registering universes, columns,
\* storages and engine tables.
Spec ==
    Init /\ [][ \/ GetUniverse
             \/ SetUniverse
             \/ GetColumn
             \/ HasColumn
             \/ SetColumn
             \/ SetTable
             \/ CreateTable
             \/ GetLegacyTable
             \/ GetContextTable ]_vars

\* The computer registry and the evaluator cache, interleaved with calls of
\* the lowering protocol.
SpecRegistry ==
    Init /\ [][ \/ AddComputerLogic
             \/ GetComputerLogic
             \/ GetOrCreateEvaluator
             \/ SetUniverse
             \/ GetUniverse
             \/ SetColumn
             \/ GetColumn ]_vars

\* Legacy tables, with the calls that feed them.
SpecLegacy ==
    Init /\ [][ \/ SetLegacyTable
             \/ GetLegacyTable
             \/ HasLegacyTable
             \/ SetUniverse
             \/ SetColumn
             \/ SetTable
             \/ GetColumn ]_vars

\* Renaming and dropping the columns of tables.
SpecRename ==
    Init /\ [][ \/ RenameColumns
                \/ RenameByDict
                \/ Without ]_vars

\* Operator calls that check their arguments.
SpecChecked ==
    Init /\ [][ \/ FromColumns
                \/ Flatten
                \/ Concat
                \/ UpdateCells
                \/ Restrict
                \/ Filter ]_vars

\* Composing a plan with the table operators.
NextPlan ==
    \/ Select
    \/ Add
    \/ Filter
    \/ Ix
    \/ Difference
    \/ Intersect
    \/ Restrict
    \/ Copy
    \/ Concat
    \/ ConcatReindex
    \/ UpdateCells
    \/ UpdateRows
    \/ WithUniverseOf
    \/ WithId
    \/ WithIdFrom
    \/ RenameColumns
    \/ Without
    \/ Having
    \/ Flatten

SpecPlan == Init /\ [][NextPlan]_vars

\* Promises on the universes of the tables, and the operators that
\* allocate universes.
SpecPromises ==
    Init /\ [][ \/ PromiseAreEqual
                \/ PromiseIsSubsetOf
                \/ PromiseArePairwiseDisjoint
                \/ operator_calls < MaxAllocations /\ Filter
                \/ operator_calls < MaxAllocations /\ Difference
                \/ operator_calls < MaxAllocations /\ Intersect
                \/ operator_calls < MaxAllocations /\ Concat
                \/ operator_calls < MaxAllocations /\ WithUniverseOf
                \/ operator_calls < MaxAllocations /\ ConcatReindex
                \/ operator_calls < MaxAllocations /\ Empty ]_vars

\* Composing a plan, the helpers that sort the columns of a table and that
\* give a table its source included.
SpecPlanHelpers ==
    Init /\ [][ \/ NextPlan
             \/ SortColumnsByOther
             \/ SetSource ]_vars

\* ------------------------------------------------------- stream checks
\* tests/utils.py.  Keys and rows of the updates of the output stream.
StreamKeys == {1, 2}
StreamRows == {"x", "y"}

\* CheckKeyEntriesInStreamCallback.__init__: the entries sorted (by key,
\* order, insertion) and grouped by key; a key without entry has no queue.
CheckKeyEntriesInStreamCallback(state_list) ==
    [k \in {state_list[i].key : i \in DOMAIN state_list} |->
        [n \in 1..Cardinality({i \in DOMAIN state_list :
                                  state_list[i].key = k}) |->
            state_list[CHOOSE i \in DOMAIN state_list :
                /\ state_list[i].key = k
                /\ n = 1 + Cardinality(
                       {j \in DOMAIN state_list :
                           /\ state_list[j].key = k
                           /\ \/ state_list[j].order < state_list[i].order
                              \/ /\ state_list[j].order = state_list[i].order
                                 /\ ~state_list[j].insertion
                                 /\ state_list[i].insertion})]]]

\* CheckKeyConsistentInStreamCallback.__call__: pops the queue of the key
\* up to the first entry equal to the update.
CheckKeyConsistentInStreamCallback_call(self, key, row, time, is_addition) ==
    LET q == IF key \in DOMAIN self.state THEN self.state[key] ELSE <<>>
        hits == {i \in 1..Len(q) : /\ q[i].insertion = is_addition
                                   /\ q[i].row = row}
    IN IF q = <<>> THEN [self EXCEPT !.failed = TRUE]
       ELSE IF hits = {}
       THEN [self EXCEPT !.failed = TRUE, !.state[key] = <<>>]
       ELSE IF \A i \in hits : i >= Len(q)
       THEN [self EXCEPT !.state =
                [k \in DOMAIN self.state \ {key} |-> self.state[k]]]
       ELSE [self EXCEPT !.state[key] =
                SubSeq(q, 1 + CHOOSE i \in hits : \A j \in hits : i <= j,
                       Len(q))]

\* CheckKeyConsistentInStreamCallback.on_end
CheckKeyConsistentInStreamCallback_on_end(self) ==
    [self EXCEPT !.failed = DOMAIN self.state # {}, !.ended = TRUE]

\* Entry.validate: TRUE when no assertion fails.
validate(entry) ==
    /\ Cardinality(DOMAIN entry.values) <= 1
    /\ \A value \in DOMAIN entry.values : entry.values[value] = 1

\* CheckValuesConsistentInStreamCallback.__call__; data is a defaultdict of
\* Entry, values a Counter.
CheckValuesConsistentInStreamCallback_call(self, key, row, time, is_addition) ==
    LET entry == IF key \in DOMAIN self.data THEN self.data[key]
                 ELSE [last_modified |-> 0, values |-> EmptyMap]
        count == IF row \in DOMAIN entry.values THEN entry.values[row]
                 ELSE 0
    IN IF entry.last_modified < time /\ ~validate(entry)
       THEN [self EXCEPT !.failed = TRUE, !.data = Put(@, key, entry)]
       ELSE [self EXCEPT !.data = Put(@, key,
                [last_modified |-> IF entry.last_modified < time THEN time
                                   ELSE entry.last_modified,
                 values |->
                     IF is_addition THEN Put(entry.values, row, count + 1)
                     ELSE IF count - 1 = 0
                     THEN [value \in DOMAIN entry.values \ {row} |->
                              entry.values[value]]
                     ELSE Put(entry.values, row, count - 1)])]

\* CheckValuesConsistentInStreamCallback.on_end: the Counter of the
\* elements of the entries that are not empty against the Counter of the
\* expected rows.
CheckValuesConsistentInStreamCallback_on_end(self) ==
    [self EXCEPT
        !.ended = TRUE,
        !.failed =
            \/ \E key \in DOMAIN self.data :
                  /\ DOMAIN self.data[key].values # {}
                  /\ ~validate(self.data[key])
            \/ \E value \in StreamRows :
                  Cardinality({key \in DOMAIN self.data :
                                  DOMAIN self.data[key].values = {value}})
                      # Cardinality({i \in DOMAIN self.expected :
                                        self.expected[i] = value})]

\* ----------------------------------------------------------------- claims
\* The call just made left the ScopeState, the engine and the histories as
\* they were.
Untouched ==
    UNCHANGED << universes, columns, legacy_tables, tables, storages,
                 evaluators, computers, nextId, table_universe_calls,
                 factory_calls, issued, table_objects, universe_solver,
                 graph, lineage, user_tables, operator_calls,
                 promise_calls >>

\* assert_key_entries_in_stream_consistent(expected, table) and
\* assert_values_in_stream_consistent(table, expected): the callback is
\* built and subscribed.  No two expected entries of a key have the same
\* order and insertion.
Subscribe ==
    /\ callback.kind = "none"
    /\ \/ \E expected \in UNION {[1..n -> [key : StreamKeys,
                                          order : 1..MaxOrder,
                                          insertion : BOOLEAN,
                                          row : StreamRows]] :
                                    n \in 0..MaxEntries} :
             /\ \A i, j \in DOMAIN expected :
                   ( /\ expected[i].key = expected[j].key
                     /\ expected[i].order = expected[j].order
                     /\ expected[i].insertion = expected[j].insertion )
                      => i = j
             /\ callback' =
                   [kind |-> "key",
                    state |-> CheckKeyEntriesInStreamCallback(expected),
                    data |-> EmptyMap, expected |-> expected,
                    observed |-> <<>>, failed |-> FALSE, ended |-> FALSE]
       \/ \E expected \in UNION {[1..n -> StreamRows] :
                                    n \in 0..MaxExpected} :
             callback' =
                 [kind |-> "values", state |-> EmptyMap, data |-> EmptyMap,
                  expected |-> expected, observed |-> <<>>,
                  failed |-> FALSE, ended |-> FALSE]
    /\ Untouched /\ UNCHANGED << wait, last >>

\* The engine calls the callback with an update of the stream, times never
\* decreasing; the stream ends at the first exception.
OnChange ==
    /\ callback.kind # "none"
    /\ ~callback.failed /\ ~callback.ended
    /\ Len(callback.observed) < MaxEvents
    /\ \E key \in StreamKeys, row \in StreamRows, is_addition \in BOOLEAN,
          time \in 1..MaxTime :
          /\ \A i \in DOMAIN callback.observed :
                callback.observed[i].time <= time
          /\ callback' =
                [ (IF callback.kind = "key"
                   THEN CheckKeyConsistentInStreamCallback_call(
                            callback, key, row, time, is_addition)
                   ELSE CheckValuesConsistentInStreamCallback_call(
                            callback, key, row, time, is_addition))
                  EXCEPT !.observed =
                      Append(@, [key |-> key, row |-> row, time |-> time,
                                 is_addition |-> is_addition]) ]
    /\ Untouched /\ UNCHANGED << wait, last >>

\* The engine calls on_end once the stream is over.
OnEnd ==
    /\ callback.kind # "none"
    /\ ~callback.failed /\ ~callback.ended
    /\ callback' = IF callback.kind = "key"
                   THEN CheckKeyConsistentInStreamCallback_on_end(callback)
                   ELSE CheckValuesConsistentInStreamCallback_on_end(callback)
    /\ Untouched /\ UNCHANGED << wait, last >>

\* ------------------------------------------- tests: waiting for a result
\* What one call of the checker does: it returns a value or raises.
CheckerOutcomes == {"True", "False", "None", "raise"}
\* bool(value) of a value the checker returned.
Truthy(value) == value = "True"

\* Variant of poll: the loop goes on after a truthy result.
poll_without_break(self, outcome) ==
    [self EXCEPT
        !.polls = Append(@, outcome),
        !.succeeded = IF outcome = "raise" THEN @ ELSE outcome,
        !.pc = IF Len(self.polls) + 1 = self.timeout_sec
               THEN "terminate" ELSE "loop"]

\* One iteration of the loop of wait_result_with_checker: sleep, call the
\* checker, keep its result unless it raised, and leave the loop on a truthy
\* result or after timeout_sec iterations.
poll(self, outcome) ==
    [self EXCEPT
        !.polls = Append(@, outcome),
        !.succeeded = IF outcome = "raise" THEN @ ELSE outcome,
        !.pc = IF \/ (outcome # "raise" /\ Truthy(outcome))
                  \/ Len(self.polls) + 1 = self.timeout_sec
               THEN "terminate" ELSE "loop"]

\* wait_result_with_checker(checker, timeout_sec) is called: the child
\* process is started.
WaitResultWithChecker ==
    /\ wait.pc = "idle"
    /\ \E timeout_sec \in 0..MaxTimeoutSec :
          wait' = [pc |-> IF timeout_sec = 0 THEN "terminate" ELSE "loop",
                   timeout_sec |-> timeout_sec, polls |-> <<>>,
                   succeeded |-> "False", child |-> "running",
                   joined |-> FALSE]
    /\ Untouched /\ UNCHANGED << callback, last >>

\* An iteration of the loop, with whatever the checker does.
Poll ==
    /\ wait.pc = "loop"
    /\ \E outcome \in CheckerOutcomes : wait' = poll(wait, outcome)
    /\ Untouched /\ UNCHANGED << callback, last >>

\* The child process ends by itself.
ChildExits ==
    /\ wait.pc \in {"loop", "terminate"}
    /\ wait.child = "running"
    /\ wait' = [wait EXCEPT !.child = "exited"]
    /\ Untouched /\ UNCHANGED << callback, last >>

\* p.terminate()
Terminate ==
    /\ wait.pc = "terminate"
    /\ wait' = [wait EXCEPT !.pc = "join",
                            !.child = IF @ = "running" THEN "terminated"
                                      ELSE @]
    /\ Untouched /\ UNCHANGED << callback, last >>

\* p.join() returns once the child is gone; return succeeded.
Join ==
    /\ wait.pc = "join"
    /\ wait.child # "running"
    /\ wait' = [wait EXCEPT !.pc = "returned", !.joined = TRUE]
    /\ Untouched /\ UNCHANGED << callback, last >>

\* A test waits for the result of a run: the steps of the function are
\* taken one after the other, the checker and the child process returning
\* in finite time.
SpecWait ==
    /\ Init
    /\ [][ \/ WaitResultWithChecker
           \/ Poll
           \/ ChildExits
           \/ Terminate
           \/ Join ]_vars
    /\ WF_vars(Poll) /\ WF_vars(Terminate) /\ WF_vars(Join)

\* A stream checked by a callback.
SpecStream == Init /\ [][ \/ Subscribe \/ OnChange \/ OnEnd ]_vars

\* A call that ended in frame m would leave the ScopeState, the engine and
\* the histories as they are now, and would call no engine function.
WouldChangeNothing(m) ==
    /\ m.calls = <<>>
    /\ m.universes = universes
    /\ m.columns = columns
    /\ m.legacy_tables = legacy_tables
    /\ m.tables = tables
    /\ m.storages = storages
    /\ m.evaluators = evaluators
    /\ m.computers = computers
    /\ m.nextId = nextId
    /\ m.table_universe_calls = table_universe_calls
    /\ m.factory_calls = factory_calls
    /\ m.issued = issued

\* C1: when get_column(C) has returned a handle, the next get_column(C)
\* returns the identical handle, makes no engine call and leaves the state
\* unchanged.
GetColumnIdempotent ==
    (last.op = "get_column" /\ last.exc = "none") =>
        /\ get_column(Frame, last.arg.column).exc = "none"
        /\ get_column(Frame, last.arg.column).ret = last.ret.engine_column
        /\ WouldChangeNothing(get_column(Frame, last.arg.column))

\* A get_column that resolved its column and its universe through the engine
\* has returned.
GetColumnResolvedByEngine ==
    last.op = "get_column" /\ last.exc = "none" /\ Len(last.calls) = 2

\* C2: scope.table_universe is called at most once per logical universe, and
\* once it was called every get_universe of that universe returns the handle
\* of that first resolution without an engine call.
TableUniverseAtMostOnce ==
    \A u \in Universes :
        /\ Len(table_universe_calls[u]) <= 1
        /\ Len(table_universe_calls[u]) = 1 =>
            /\ u \in DOMAIN universes
            /\ universes[u] = table_universe_calls[u][1]
            /\ get_universe(Frame, u).exc = "none"
            /\ get_universe(Frame, u).ret = table_universe_calls[u][1]
            /\ WouldChangeNothing(get_universe(Frame, u))

\* A get_universe of a universe that the engine resolved earlier was
\* answered from the cache.
GetUniverseFromCache ==
    /\ last.op = "get_universe" /\ last.exc = "none" /\ last.calls = <<>>
    /\ Len(table_universe_calls[last.arg.universe]) = 1

\* C3: in every map, a key that is bound stays bound to the same handle
\* across every public call.
EntriesNeverReplaced ==
    [][ /\ \A k \in DOMAIN universes :
              k \in DOMAIN universes' /\ universes'[k] = universes[k]
        /\ \A k \in DOMAIN columns :
              k \in DOMAIN columns' /\ columns'[k] = columns[k]
        /\ \A k \in DOMAIN legacy_tables :
              k \in DOMAIN legacy_tables'
              /\ legacy_tables'[k] = legacy_tables[k]
        /\ \A k \in DOMAIN tables :
              k \in DOMAIN tables' /\ tables'[k] = tables[k]
        /\ \A k \in DOMAIN storages :
              k \in DOMAIN storages' /\ storages'[k] = storages[k]
        /\ \A k \in DOMAIN evaluators :
              k \in DOMAIN evaluators' /\ evaluators'[k] = evaluators[k]
      ]_vars

\* C4: set_universe(U, h) with U cached as h0 raises AssertionError when
\* h # h0 and changes nothing when h = h0, and U stays bound to h0 in both
\* cases; with U not cached it binds U to h.
SetUniverseContract ==
    [][ last'.op = "set_universe" =>
          IF last'.arg.universe \in DOMAIN universes
          THEN /\ last'.arg.engine_universe # universes[last'.arg.universe]
                      => last'.exc = "AssertionError"
               /\ last'.arg.engine_universe = universes[last'.arg.universe]
                      => last'.exc = "none" /\ Untouched
               /\ universes' = universes
          ELSE /\ last'.exc = "none"
               /\ universes' = Put(universes, last'.arg.universe,
                                   last'.arg.engine_universe)
      ]_vars

\* set_universe was refused on a cached universe.
SetUniverseRefused ==
    last.op = "set_universe" /\ last.exc = "AssertionError"

\* C5: get_universe of an uncached universe without storage, and get_column
\* of an uncached column whose universe has no storage, raise
\* OutOfScopeError, call no engine function and change nothing.
NoStorageIsOutOfScope ==
    [][ /\ ( /\ last'.op = "get_universe"
             /\ last'.arg.universe \notin DOMAIN universes
             /\ last'.arg.universe \notin DOMAIN storages )
           => ( /\ last'.exc = "OutOfScopeError"
                /\ last'.calls = <<>>
                /\ Untouched )
        /\ ( /\ last'.op = "get_column"
             /\ last'.arg.column \notin DOMAIN columns
             /\ column_universe[last'.arg.column] \notin DOMAIN storages )
           => ( /\ last'.exc = "OutOfScopeError"
                /\ last'.calls = <<>>
                /\ Untouched )
      ]_vars

\* A get_column failed on a column whose universe has no storage.
GetColumnWithoutStorage ==
    /\ last.op = "get_column" /\ last.exc = "OutOfScopeError"
    /\ column_universe[last.arg.column] \notin DOMAIN storages

\* C6: get_column of an uncached column that the storage of its universe
\* does not hold raises OutOfScopeError before any engine call; nothing is
\* resolved or cached by the failed call.
ColumnNotInStorageIsOutOfScope ==
    [][ ( /\ last'.op = "get_column"
          /\ last'.arg.column \notin DOMAIN columns
          /\ column_universe[last'.arg.column] \in DOMAIN storages
          /\ ~storage_has_column(
                 storages[column_universe[last'.arg.column]],
                 last'.arg.column) )
        => ( /\ last'.exc = "OutOfScopeError"
             /\ last'.calls = <<>>
             /\ last'.arg.column \notin DOMAIN columns'
             /\ Untouched )
      ]_vars

\* A get_column failed on a column missing from the registered storage of
\* its universe, and that universe is still unresolved.
GetColumnMissingFromStorage ==
    /\ last.op = "get_column" /\ last.exc = "OutOfScopeError"
    /\ column_universe[last.arg.column] \in DOMAIN storages
    /\ column_universe[last.arg.column] \notin DOMAIN universes

\* C7: has_column(C) returns False exactly when get_column(C) would raise
\* OutOfScopeError in the same state, and then changes nothing; when
\* get_column(C) would return it returns True and C is cached afterwards;
\* any other exception of get_column leaves has_column as it is.
HasColumnProbe ==
    [][ last'.op = "has_column" =>
          /\ (get_column(Frame, last'.arg.column).exc = "OutOfScopeError")
                <=> (last'.exc = "none" /\ last'.ret.bool = FALSE)
          /\ get_column(Frame, last'.arg.column).exc = "OutOfScopeError"
                => Untouched
          /\ get_column(Frame, last'.arg.column).exc = "none" =>
                /\ last'.exc = "none" /\ last'.ret.bool = TRUE
                /\ last'.arg.column \in DOMAIN columns'
          /\ get_column(Frame, last'.arg.column).exc
                \notin {"none", "OutOfScopeError"} =>
                last'.exc = get_column(Frame, last'.arg.column).exc
      ]_vars

\* has_column answered False although the universe of the column has a
\* storage.
HasColumnFalse ==
    /\ last.op = "has_column" /\ last.exc = "none" /\ last.ret.bool = FALSE
    /\ column_universe[last.arg.column] \in DOMAIN storages

\* C8: get_column of an uncached column held by the storage of its universe
\* calls scope.table_universe once if the universe is not cached and not at
\* all if it is, then scope.table_column once with that universe handle, the
\* engine table of the storage and the stored path, and nothing else; it
\* adds the entry of the column and, if absent, that of its universe.
GetColumnLocality ==
    [][ ( /\ last'.op = "get_column"
          /\ last'.arg.column \notin DOMAIN columns
          /\ column_universe[last'.arg.column] \in DOMAIN storages
          /\ storage_has_column(
                 storages[column_universe[last'.arg.column]],
                 last'.arg.column) )
        => LET univ == column_universe[last'.arg.column]
               engine_table == tables[univ]
               table_column_call ==
                   [fn |-> "table_column",
                    universe |-> universes'[univ],
                    table |-> engine_table,
                    path |-> storage_get_path(storages[univ],
                                              last'.arg.column),
                    result_column |-> last'.ret.engine_column]
           IN /\ last'.exc = "none"
              /\ IF univ \in DOMAIN universes
                 THEN /\ last'.calls = << table_column_call >>
                      /\ universes' = universes
                 ELSE /\ last'.calls =
                            << [fn |-> "table_universe",
                                table |-> engine_table,
                                result_universe |-> universes'[univ]],
                               table_column_call >>
                      /\ universes' =
                            Put(universes, univ, engine_table.universe)
              /\ columns' = Put(columns, last'.arg.column,
                                last'.ret.engine_column)
              /\ UNCHANGED << legacy_tables, tables, storages, evaluators,
                              computers >>
      ]_vars

\* A get_column resolved its column on a universe that was cached already.
GetColumnOnCachedUniverse ==
    last.op = "get_column" /\ last.exc = "none" /\ Len(last.calls) = 1

\* The columns of a storage that are not ExternalMaterializedColumn, in
\* storage order, each engine handle paired with the path of its column.
NonExternalWithPaths(storage, handles) ==
    LET kept == SelectSeq(storage.columns,
                          LAMBDA c : c \notin ExternalColumns)
    IN [i \in 1..Len(kept) |->
           <<handles[kept[i]], storage_get_path(storage, kept[i])>>]

\* After create_table(U, S) returned: exactly one scope.columns_to_table
\* call was made, it came last, it received the engine universe of U and
\* the non-external columns of S with their paths in storage order, and
\* get_table(S) returns the engine table it produced.
CreateTableBuiltTable ==
    LET call == last.calls[Len(last.calls)] IN
    /\ Cardinality({i \in DOMAIN last.calls :
                       last.calls[i].fn = "columns_to_table"}) = 1
    /\ call.fn = "columns_to_table"
    /\ call.universe = universes[last.arg.universe]
    /\ call.columns = NonExternalWithPaths(last.arg.storage, columns)
    /\ get_table(Frame, last.arg.storage).exc = "none"
    /\ get_table(Frame, last.arg.storage).ret = call.result_table

\* C9 as stated: after create_table(U, S) returns, get_storage(U) returns S
\* and get_table(S) returns the table built by the single columns_to_table
\* call from the engine universe of U and the non-external columns of S.
CreateTableStoredUnderArgument ==
    (last.op = "create_table" /\ last.exc = "none") =>
        /\ get_storage(Frame, last.arg.universe).exc = "none"
        /\ get_storage(Frame, last.arg.universe).ret = last.arg.storage
        /\ CreateTableBuiltTable

\* C9 amended: after create_table(U, S) returns, get_storage(S._universe)
\* returns S (get_storage(U) only when U is S._universe) and get_table(S)
\* returns the table built by the single columns_to_table call from the
\* engine universe of U and the non-external columns of S.
CreateTableStoredUnderStorageUniverse ==
    (last.op = "create_table" /\ last.exc = "none") =>
        /\ get_storage(Frame, last.arg.storage.universe).exc = "none"
        /\ get_storage(Frame, last.arg.storage.universe).ret
               = last.arg.storage
        /\ CreateTableBuiltTable

\* create_table returned for a storage with two non-external columns.
CreateTableOfTwoColumns ==
    /\ last.op = "create_table" /\ last.exc = "none"
    /\ Len(last.calls[Len(last.calls)].columns) = 2

\* C10: the n-th add_computer_logic call, counting from 0, returned n, and
\* get_computer_logic of an id handed out returns the callback registered
\* with it.
ComputerIdsDense ==
    \A k \in 1..Len(issued) :
        /\ issued[k].id = k - 1
        /\ get_computer_logic(Frame, issued[k].id).exc = "none"
        /\ get_computer_logic(Frame, issued[k].id).ret = issued[k].callback

\* The first of two different callbacks was looked up after both were
\* registered.
FirstComputerLookedUp ==
    /\ last.op = "get_computer_logic" /\ last.exc = "none"
    /\ last.arg.id = 0
    /\ Len(issued) = 2
    /\ issued[1].callback # issued[2].callback
    /\ last.ret.callback = issued[1].callback

\* C11: for each context the evaluator factory is invoked at most once; a
\* get_or_create_evaluator on a context that has an evaluator returns that
\* evaluator, whatever factory is passed, without invoking the factory, and
\* no call ever replaces the evaluator of a context.
OneEvaluatorPerContext ==
    [][ /\ \A x \in Contexts : factory_calls'[x] <= 1
        /\ \A x \in DOMAIN evaluators :
              x \in DOMAIN evaluators' /\ evaluators'[x] = evaluators[x]
        /\ last'.op = "get_or_create_evaluator" =>
              /\ last'.exc = "none"
              /\ IF last'.arg.context \in DOMAIN evaluators
                 THEN /\ last'.ret.evaluator = evaluators[last'.arg.context]
                      /\ Untouched
                 ELSE /\ factory_calls'[last'.arg.context] = 1
                      /\ last'.ret.evaluator =
                            evaluator_factory(last'.arg.factory,
                                              last'.arg.context)
                      /\ evaluators' = Put(evaluators, last'.arg.context,
                                           last'.ret.evaluator)
      ]_vars

\* A get_or_create_evaluator with a second factory returned the evaluator
\* that the first factory had built.
EvaluatorOfFirstFactory ==
    /\ last.op = "get_or_create_evaluator" /\ last.exc = "none"
    /\ last.ret.evaluator.factory # last.arg.factory

\* ---- the logical plan
\* The table that the last operator call returned.
Result == table_objects[last.ret.table]
\* The call found in the log of the last operator call: fn(us) returned u.
Logged(fn, us, u) ==
    \E i \in 1..Len(last.calls) :
        last.calls[i] = [fn |-> fn, us |-> us, result_universe |-> u]

\* C12: in every table built by any sequence of table operators, the names
\* of the schema are the keys of the column mapping in the same order, and
\* every column, the id column included, has the universe of the table.
SchemaAndUniverseConsistent ==
    \A t \in 1..Len(table_objects) :
        /\ [i \in 1..Len(table_objects[t].schema) |->
               table_objects[t].schema[i].name]
              = keys(table_objects[t].columns)
        /\ \A i \in 1..Len(table_objects[t].columns) :
              table_objects[t].columns[i].column.universe
                  = table_objects[t].universe
        /\ table_objects[t].id_column.universe = table_objects[t].universe

\* The second of two operator calls renamed a column of a table that the
\* first call had built on a new universe.
RenamedAfterOperator ==
    /\ last.op = "rename_columns" /\ last.exc = "none"
    /\ operator_calls = 2
    /\ Result.universe > Len(Schemas)
    /\ keys(Result.columns) = <<"b", "c">>

\* C13: tables are immutable values: no operator call and no helper call
\* changes the columns, the universe or the schema of a table built before,
\* and the table of every operator placed in the parse graph is one that
\* did not exist before.
TablesImmutableAndFresh ==
    [][ /\ Len(table_objects') >= Len(table_objects)
        /\ \A t \in 1..Len(table_objects) :
              table_objects'[t] = table_objects[t]
        /\ \A i \in (Len(graph) + 1)..Len(graph') :
              graph'[i].output > Len(table_objects)
      ]_vars

\* C14: concat raises ValueError unless the solver proves the universes of
\* self and of the others pairwise disjoint; when it returns, the universe
\* of the result is what the solver's get_union gave for these universes
\* and the column names are those of self, in order.
ConcatContract ==
    [][ last'.op = "concat" =>
          /\ ~query_are_disjoint(universe_solver,
                  universes_of(PlanFrame, last'.arg.self, last'.arg.others))
                => last'.exc = "ValueError"
          /\ last'.exc \in {"none", "ValueError"}
          /\ last'.exc = "none" =>
                /\ \E i \in 1..Len(last'.calls) :
                      last'.calls[i] =
                          [fn |-> "get_union",
                           us |-> universes_of(PlanFrame, last'.arg.self,
                                               last'.arg.others),
                           result_universe |->
                               table_objects'[last'.ret.table].universe]
                /\ keys(table_objects'[last'.ret.table].columns)
                      = keys(table_objects[last'.arg.self].columns)
      ]_vars

\* concat of two tables returned a table on a new universe.
ConcatOfDisjointTables ==
    /\ last.op = "concat" /\ last.exc = "none"
    /\ Len(last.arg.others) = 1
    /\ Result.universe \notin
          {table_objects[t].universe : t \in 1..(last.ret.table - 1)}

\* C15: update_cells raises ValueError when other has a column name that
\* self has not, or when the universes are different objects and the solver
\* does not prove other.U a subset of self.U; whenever it returns, the
\* result has the universe of self and the column names of self in order.
UpdateCellsContract ==
    [][ last'.op = "update_cells" =>
          /\ ~(key_set(table_objects[last'.arg.other].columns)
                  \subseteq key_set(table_objects[last'.arg.self].columns))
                => last'.exc = "ValueError"
          /\ ( /\ table_objects[last'.arg.self].universe
                     # table_objects[last'.arg.other].universe
               /\ ~query_is_subset(universe_solver,
                       table_objects[last'.arg.other].universe,
                       table_objects[last'.arg.self].universe) )
                => last'.exc = "ValueError"
          /\ last'.exc \in {"none", "ValueError"}
          /\ last'.exc = "none" =>
                /\ table_objects'[last'.ret.table].universe
                      = table_objects[last'.arg.self].universe
                /\ keys(table_objects'[last'.ret.table].columns)
                      = keys(table_objects[last'.arg.self].columns)
      ]_vars

\* update_cells returned for a table on another universe, which the solver
\* knows as a subset of the universe of self.
UpdateCellsFromSubset ==
    /\ last.op = "update_cells" /\ last.exc = "none"
    /\ table_objects[last.arg.self].universe
          # table_objects[last.arg.other].universe

\* C16: update_rows raises ValueError when the column name sets differ;
\* otherwise, when the solver proves self.U a subset of other.U, it returns
\* the table other and places no operator; otherwise the universe of the
\* result is what get_union gave for (self.U, other.U) and the context is
\* UpdateCells when that is self.U and UpdateRows when not.
UpdateRowsContract ==
    [][ last'.op = "update_rows" =>
          IF key_set(columns_of(PlanFrame, last'.arg.other))
           # key_set(columns_of(PlanFrame, last'.arg.self))
          THEN last'.exc = "ValueError" /\ graph' = graph
          ELSE IF query_is_subset(universe_solver,
                      table_objects[last'.arg.self].universe,
                      table_objects[last'.arg.other].universe)
          THEN /\ last'.exc = "none"
               /\ last'.ret.table = last'.arg.other
               /\ graph' = graph
               /\ table_objects' = table_objects
          ELSE /\ last'.exc = "none"
               /\ last'.ret.table > Len(table_objects)
               /\ \E i \in 1..Len(last'.calls) :
                     last'.calls[i] =
                         [fn |-> "get_union",
                          us |-> <<table_objects[last'.arg.self].universe,
                                   table_objects[last'.arg.other].universe>>,
                          result_universe |->
                              table_objects'[last'.ret.table].universe]
               /\ table_objects'[last'.ret.table].id_column.context =
                     IF table_objects'[last'.ret.table].universe
                            = table_objects[last'.arg.self].universe
                     THEN "UpdateCells" ELSE "UpdateRows"
               /\ \A i \in 1..Len(table_objects'[last'.ret.table].columns) :
                     table_objects'[last'.ret.table].columns[i].column.context
                         = table_objects'[last'.ret.table].id_column.context
      ]_vars

\* update_rows built its result with an UpdateCells context.
UpdateRowsOntoSuperset ==
    /\ last.op = "update_rows" /\ last.exc = "none"
    /\ Result.id_column.context = "UpdateCells"


\* What a with_universe_of that returned has built: a plain copy of self.
ReturnedPlainCopy ==
    /\ last'.exc = "none"
    /\ table_objects'[last'.ret.table].universe
          = table_objects[last'.arg.self].universe
    /\ table_objects'[last'.ret.table].id_column.context = "Rowwise"
    /\ \A i \in 1..Len(table_objects'[last'.ret.table].columns) :
          table_objects'[last'.ret.table].columns[i].column.context
              = "Rowwise"
    /\ keys(table_objects'[last'.ret.table].columns)
          = keys(table_objects[last'.arg.self].columns)
    /\ universe_solver' = universe_solver
    /\ graph'[Len(graph')].operator = "copy"

\* What a with_universe_of that returned has built: a table on other.U with
\* every column in a PromiseSameUniverse context, the equality recorded.
ReturnedPromisedTable ==
    /\ last'.exc = "none"
    /\ query_are_equal(universe_solver',
                       table_objects[last'.arg.self].universe,
                       table_objects[last'.arg.other].universe)
    /\ table_objects'[last'.ret.table].universe
          = table_objects[last'.arg.other].universe
    /\ table_objects'[last'.ret.table].id_column.context
          = "PromiseSameUniverse"
    /\ \A i \in 1..Len(table_objects'[last'.ret.table].columns) :
          table_objects'[last'.ret.table].columns[i].column.context
              = "PromiseSameUniverse"
    /\ keys(table_objects'[last'.ret.table].columns)
          = keys(table_objects[last'.arg.self].columns)

\* C17 as stated: with_universe_of returns a plain copy, recording nothing,
\* whenever the solver proves self.U equal to other.U; otherwise it records
\* the equality and returns a table on other.U with PromiseSameUniverse
\* columns.
WithUniverseOfCopiesWhenSolverEqual ==
    [][ last'.op = "with_universe_of" =>
          IF query_are_equal(universe_solver,
                             table_objects[last'.arg.self].universe,
                             table_objects[last'.arg.other].universe)
          THEN ReturnedPlainCopy
          ELSE ReturnedPromisedTable
      ]_vars

\* C17 amended: with_universe_of returns a plain copy, recording nothing,
\* whenever self.U and other.U are the same universe object; otherwise,
\* also when the solver already proves the two equal, it records the
\* equality and returns a table on other.U with PromiseSameUniverse
\* columns, unless the solver refuses the promise (ValueError) because it
\* proves the two universes disjoint.
WithUniverseOfCopiesWhenSameObject ==
    [][ last'.op = "with_universe_of" =>
          IF table_objects[last'.arg.self].universe
                 = table_objects[last'.arg.other].universe
          THEN ReturnedPlainCopy
          ELSE IF proved_disjoint(universe_solver,
                       table_objects[last'.arg.self].universe,
                       table_objects[last'.arg.other].universe)
          THEN last'.exc = "ValueError" /\ universe_solver' = universe_solver
          ELSE ReturnedPromisedTable
      ]_vars

\* with_universe_of was called a second time for the same table and the
\* same other universe, which the solver then proved equal to self.U, and
\* returned a table of PromiseSameUniverse columns again.
WithUniverseOfTwice ==
    /\ last.op = "with_universe_of" /\ last.exc = "none"
    /\ Len(graph) = 2
    /\ graph[1].operator = "_unsafe_promise_universe"
    /\ graph[2].operator = "_unsafe_promise_universe"
    /\ table_objects[graph[1].output].universe = Result.universe
    /\ table_objects[graph[1].output].columns[1].column.expression.table
          = last.arg.self
    /\ table_objects[last.arg.self].universe # Result.universe

\* What an __add__ that returned has built: a table on self.U whose columns
\* are those of self followed by those of other.
ReturnedColumnsOfBoth ==
    /\ last.exc = "none"
    /\ Result.universe = table_objects[last.arg.self].universe
    /\ keys(Result.columns)
          = keys(dict(table_objects[last.arg.self].columns
                      \o table_objects[last.arg.other].columns))
    /\ \A i \in 1..Len(Result.columns) :
          Result.columns[i].column.expression.table =
              IF Result.columns[i].name
                     \in key_set(table_objects[last.arg.other].columns)
              THEN last.arg.other ELSE last.arg.self

\* C18: self + other raises ValueError when the solver cannot prove self.U
\* equal to other.U; whenever it proves them equal, also for two universe
\* objects equated by a promise, self + other returns a table on self.U with
\* the columns of self followed by those of other (here for tables that
\* share no column name).
AddContract ==
    (last.op = "__add__") =>
        IF ~query_are_equal(universe_solver,
                            table_objects[last.arg.self].universe,
                            table_objects[last.arg.other].universe)
        THEN last.exc = "ValueError"
        ELSE key_set(table_objects[last.arg.self].columns)
                 \cap key_set(table_objects[last.arg.other].columns) = {}
             => ReturnedColumnsOfBoth

\* t1.with_universe_of(t3) recorded that two universe objects are equal,
\* and t1 + t3 was then called: the solver proves the universes equal.
AddAfterPromise ==
    /\ last.op = "__add__"
    /\ table_objects[last.arg.self].universe
          # table_objects[last.arg.other].universe
    /\ query_are_equal(universe_solver,
                       table_objects[last.arg.self].universe,
                       table_objects[last.arg.other].universe)

\* C19: restrict(other) raises ValueError exactly when the solver does not
\* prove other.U a subset of self.U; when it returns, the universe of the
\* result is other.U, no universe was allocated and no fact recorded, and
\* the column names of the result are those of self, in order.
RestrictContract ==
    [][ last'.op = "restrict" =>
          IF ~query_is_subset(universe_solver,
                              table_objects[last'.arg.other].universe,
                              table_objects[last'.arg.self].universe)
          THEN last'.exc = "ValueError"
          ELSE /\ last'.exc = "none"
               /\ table_objects'[last'.ret.table].universe
                     = table_objects[last'.arg.other].universe
               /\ universe_solver' = universe_solver
               /\ keys(table_objects'[last'.ret.table].columns)
                     = keys(table_objects[last'.arg.self].columns)
               /\ table_objects'[last'.ret.table].id_column.context
                     = "Restrict"
      ]_vars

\* restrict returned for a table on another universe, a proper subset of
\* the universe of self.
RestrictedToSubset ==
    /\ last.op = "restrict" /\ last.exc = "none"
    /\ Result.universe = table_objects[last.arg.other].universe
    /\ Result.universe # table_objects[last.arg.self].universe
    /\ ~query_are_equal(universe_solver, Result.universe,
                        table_objects[last.arg.self].universe)

\* C20: filter(e) raises TypeError exactly when the type of e is not bool;
\* it returns for every bool expression over the columns of self; when it
\* returns, the universe of the result was allocated by this call, the
\* solver proves it a subset of self.U, restrict and update_cells of self
\* accept the result with no promise, and the column names of the result
\* are those of self, in order.
FilterContract ==
    [][ last'.op = "filter" =>
          /\ last'.exc = "TypeError" <=> last'.arg.expression.dtype # "BOOL"
          /\ ( /\ last'.arg.expression.dtype = "BOOL"
               /\ last'.arg.expression.table = last'.arg.self )
             => last'.exc = "none"
          /\ last'.exc = "none" =>
               /\ table_objects'[last'.ret.table].universe
                     > Len(universe_solver.representative)
               /\ table_objects'[last'.ret.table].universe
                     \in 1..Len(universe_solver'.representative)
               /\ query_is_subset(universe_solver',
                      table_objects'[last'.ret.table].universe,
                      table_objects[last'.arg.self].universe)
               /\ Ok(restrict(PlanFrame', last'.arg.self, last'.ret.table))
               /\ Ok(update_cells(PlanFrame', last'.arg.self,
                                  last'.ret.table))
               /\ keys(table_objects'[last'.ret.table].columns)
                     = keys(table_objects[last'.arg.self].columns)
      ]_vars

\* filter returned for a bool column of self: the result lives on a universe
\* of its own.
FilteredByBoolColumn ==
    /\ last.op = "filter" /\ last.exc = "none"
    /\ last.arg.expression.kind # "is_not_none"
    /\ Result.universe # table_objects[last.arg.self].universe
    /\ Result.id_column.context = "Filter"

\* C21: having(indexer) with one indexer returns a table whose universe the
\* solver proves to be a subset of self.U; with several indexers the result
\* is the intersection of the tables the single indexers give, so that the
\* solver proves its universe a subset of each of theirs.
HavingContract ==
    [][ (last'.op = "having" /\ last'.exc = "none"
            /\ Len(last'.arg.indexers) > 0) =>
          /\ query_is_subset(universe_solver',
                 table_objects'[last'.ret.table].universe,
                 table_objects[last'.arg.self].universe)
          /\ Len(last'.arg.indexers) > 1 =>
               \A i \in 1..Len(last'.arg.indexers) :
                   /\ graph'[Len(graph) + i].operator = "_having"
                   /\ query_is_subset(universe_solver',
                          table_objects'[last'.ret.table].universe,
                          table_objects'[graph'[Len(graph) + i].output]
                              .universe)
      ]_vars

\* C21 amended: having(indexer) with one indexer returns a table with the
\* columns of self whose universe is a new subset of the universe of the
\* indexer's table (of self.U only when the indexer is a column of a table
\* on self.U); with several indexers the result is the intersection of the
\* tables the single indexers give.
HavingSubsetOfIndexerTable ==
    [][ (last'.op = "having" /\ Len(last'.arg.indexers) > 0) =>
          /\ last'.exc = "none"
          /\ table_objects'[last'.ret.table].universe
                > Len(universe_solver.representative)
          /\ keys(table_objects'[last'.ret.table].columns)
                = keys(table_objects[last'.arg.self].columns)
          /\ \A i \in 1..Len(last'.arg.indexers) :
               /\ graph'[Len(graph) + i].operator = "_having"
               /\ query_is_subset(universe_solver',
                      table_objects'[graph'[Len(graph) + i].output].universe,
                      table_objects[last'.arg.indexers[i].table].universe)
               /\ query_is_subset(universe_solver',
                      table_objects'[last'.ret.table].universe,
                      table_objects'[graph'[Len(graph) + i].output].universe)
          /\ Len(last'.arg.indexers) = 1 =>
                last'.ret.table = graph'[Len(graph) + 1].output
          /\ Len(last'.arg.indexers) > 1 =>
                /\ Len(graph') = Len(graph) + Len(last'.arg.indexers) + 1
                /\ graph'[Len(graph')] =
                      [operator |-> "intersect", output |-> last'.ret.table]
      ]_vars

\* having returned for one indexer that is a column of a table on another
\* universe than self.
HavingOnForeignIndexer ==
    /\ last.op = "having" /\ last.exc = "none"
    /\ Len(last.arg.indexers) = 1
    /\ table_objects[last.arg.indexers[1].table].universe
          # table_objects[last.arg.self].universe
    /\ ~query_is_subset(universe_solver, Result.universe,
                        table_objects[last.arg.self].universe)

\* C22: having() with no indexer returns self itself: the same table
\* object, no operator node added to the graph, no universe allocated, no
\* table built.
HavingNothingReturnsSelf ==
    [][ (last'.op = "having" /\ last'.arg.indexers = <<>>) =>
          /\ last'.exc = "none"
          /\ last'.ret.table = last'.arg.self
          /\ graph' = graph
          /\ universe_solver' = universe_solver
          /\ table_objects' = table_objects
      ]_vars

\* having() was called on a table that an operator built.
HavingOfNothing ==
    /\ last.op = "having" /\ last.arg.indexers = <<>>
    /\ last.ret.table = last.arg.self
    /\ last.arg.self > Len(Schemas)

\* C23 as stated: ix(expr, optional=True) raises TypeError when the type of
\* the key expression is a non-optional Pointer.
IxOptionalRefusesPointer ==
    ( /\ last.op = "ix" /\ last.arg.optional
      /\ last.arg.expression.dtype = "POINTER" )
        => last.exc = "TypeError"

\* C23 amended: ix(expr, optional=True) raises TypeError exactly when the
\* type of the key expression is neither Pointer nor Optional(Pointer), and
\* ix(expr, optional=False) exactly when it is not Pointer; a non-optional
\* Pointer key is accepted with optional=True.
IxKeyTypes ==
    last.op = "ix" =>
        /\ last.exc \in {"none", "TypeError"}
        /\ last.exc = "TypeError" <=>
              IF last.arg.optional
              THEN last.arg.expression.dtype
                      \notin {"POINTER", "OPT_POINTER"}
              ELSE last.arg.expression.dtype # "POINTER"

\* ix(expr, optional=True) returned for a key of type Pointer.
IxOptionalOnPointer ==
    /\ last.op = "ix" /\ last.arg.optional
    /\ last.arg.expression.dtype = "POINTER"
    /\ last.exc = "none"

\* C24 as stated: whenever ix(expr, optional=True) returns, every column of
\* the result has type Optional(T), T the type of that column of self, and
\* the universe of the result is the universe of the key's table.
IxOptionalMakesColumnsOptional ==
    ( last.op = "ix" /\ last.arg.optional /\ last.exc = "none" ) =>
        /\ Result.universe
              = table_objects[last.arg.expression.table].universe
        /\ keys(Result.columns) = keys(table_objects[last.arg.self].columns)
        /\ \A i \in 1..Len(Result.columns) :
              Result.columns[i].column.dtype =
                  Optional(table_objects[last.arg.self].columns[i]
                               .column.dtype)

\* C24 amended: whenever ix(expr, optional=True) returns, the universe of
\* the result is the universe of the key's table and its column names are
\* those of self; every column has type Optional(T) when the key has type
\* Optional(Pointer), and keeps its type T when the key has type Pointer.
IxOptionalColumnTypes ==
    ( last.op = "ix" /\ last.arg.optional /\ last.exc = "none" ) =>
        /\ Result.universe
              = table_objects[last.arg.expression.table].universe
        /\ Result.id_column.context = "Ix"
        /\ keys(Result.columns) = keys(table_objects[last.arg.self].columns)
        /\ \A i \in 1..Len(Result.columns) :
              /\ Result.columns[i].column.dtype =
                    IF last.arg.expression.dtype = "OPT_POINTER"
                    THEN Optional(table_objects[last.arg.self].columns[i]
                                      .column.dtype)
                    ELSE table_objects[last.arg.self].columns[i].column.dtype
              /\ Result.schema[i] =
                    [name |-> Result.columns[i].name,
                     dtype |-> Result.columns[i].column.dtype]

\* ix(expr, optional=True) returned for an Optional(Pointer) key of a table
\* on another universe than self, and a column of self became optional.
IxOptionalOnOptionalPointer ==
    /\ last.op = "ix" /\ last.arg.optional /\ last.exc = "none"
    /\ last.arg.expression.dtype = "OPT_POINTER"
    /\ Result.universe # table_objects[last.arg.self].universe
    /\ \E i \in 1..Len(Result.columns) :
          Result.columns[i].column.dtype
              # table_objects[last.arg.self].columns[i].column.dtype

\* C25: concat_reindex on tables with equal column sets never raises, the
\* same table given twice included: every input is reindexed to a universe
\* that did not exist before, these universes are distinct and proved
\* pairwise disjoint, and the universe of the result is what get_union gave
\* for them, a universe that is none of the inputs' universes and holds
\* each of the reindexed ones.
ConcatReindexContract ==
    [][ ( /\ last'.op = "concat_reindex"
          /\ \A i \in 1..Len(last'.arg.others) :
                key_set(table_objects[last'.arg.others[i]].columns)
                    = key_set(table_objects[last'.arg.self].columns) )
        => /\ last'.exc = "none"
           /\ \E c \in 1..Len(last'.calls) :
                 /\ last'.calls[c].fn = "get_union"
                 /\ last'.calls[c].result_universe
                       = table_objects'[last'.ret.table].universe
                 /\ Len(last'.calls[c].us) = 1 + Len(last'.arg.others)
                 /\ \A i \in 1..Len(last'.calls[c].us) :
                       /\ last'.calls[c].us[i]
                             > Len(universe_solver.representative)
                       /\ query_is_subset(universe_solver',
                              last'.calls[c].us[i],
                              last'.calls[c].result_universe)
                       /\ \E t \in 1..Len(table_objects') :
                             /\ table_objects'[t].universe
                                   = last'.calls[c].us[i]
                             /\ table_objects'[t].id_column.context
                                   = "Reindex"
                       /\ \A j \in 1..Len(last'.calls[c].us) : i # j =>
                             /\ last'.calls[c].us[i] # last'.calls[c].us[j]
                             /\ proved_disjoint(universe_solver',
                                    last'.calls[c].us[i],
                                    last'.calls[c].us[j])
           /\ \A t \in {last'.arg.self}
                         \cup {last'.arg.others[i] :
                                 i \in 1..Len(last'.arg.others)} :
                 /\ table_objects'[last'.ret.table].universe
                       # table_objects[t].universe
                 /\ ~query_are_equal(universe_solver',
                        table_objects'[last'.ret.table].universe,
                        table_objects[t].universe)
           /\ keys(table_objects'[last'.ret.table].columns)
                 = keys(table_objects[last'.arg.self].columns)
      ]_vars

\* concat_reindex of a table with itself returned a table.
ConcatReindexOfSameTableTwice ==
    /\ last.op = "concat_reindex" /\ last.exc = "none"
    /\ last.arg.others = <<last.arg.self>>
    /\ Result.universe # table_objects[last.arg.self].universe

\* C26: lineage is set once.  A table, a column or a universe that has a
\* source or a lineage keeps it for ever, so _set_source gives a lineage
\* only to what has none and a universe shared with an earlier table keeps
\* the lineage of the operator that first produced it; _set_source on a
\* table that has a source fails and changes no lineage; the table of every
\* operator placed in the graph has that operator as its source, and every
\* column of a table that has a source, its id column included, and its
\* universe have a lineage.
LineageSetOnce ==
    [][ /\ \A t \in DOMAIN lineage.source :
              /\ t \in DOMAIN lineage'.source
              /\ lineage'.source[t] = lineage.source[t]
        /\ \A k \in DOMAIN lineage.column :
              /\ k \in DOMAIN lineage'.column
              /\ lineage'.column[k] = lineage.column[k]
        /\ \A u \in DOMAIN lineage.universe :
              /\ u \in DOMAIN lineage'.universe
              /\ lineage'.universe[u] = lineage.universe[u]
        /\ ( last'.op = "_set_source"
             /\ last'.arg.self \in DOMAIN lineage.source )
              => /\ last'.exc # "none"
                 /\ lineage' = lineage
        /\ \A i \in (Len(graph) + 1)..Len(graph') :
              /\ graph'[i].output \in DOMAIN lineage'.source
              /\ lineage'.source[graph'[i].output] = i
        /\ \A t \in DOMAIN lineage'.source :
              /\ <<t, "id">> \in DOMAIN lineage'.column
              /\ \A i \in DOMAIN table_objects'[t].columns :
                    /\ <<t, table_objects'[t].columns[i].name>>
                          \in DOMAIN lineage'.column
                    /\ lineage'.column[
                           <<t, table_objects'[t].columns[i].name>>]
                          = [name |-> table_objects'[t].columns[i].name,
                             source |-> lineage'.source[t]]
              /\ table_objects'[t].universe \in DOMAIN lineage'.universe
      ]_vars

\* A second _set_source on the table of an operator failed; the universe of
\* that table has the lineage of an earlier operator.
SecondSetSourceRefused ==
    /\ last.op = "_set_source" /\ last.exc # "none"
    /\ last.arg.self \in DOMAIN lineage.source
    /\ lineage.universe[table_objects[last.arg.self].universe]
          # lineage.source[last.arg.self]

\* C27: disjointness propagates through equality and contradictions are
\* rejected: once u1 and u2 are promised equal and u2 and u3 are asserted
\* disjoint, the solver answers that u1 and u3 are disjoint; concat of
\* tables of the same column names whose universes the solver answers
\* disjoint returns; promise_are_equal of universes that the solver answers
\* disjoint raises ValueError.
DisjointnessThroughEquality ==
    [][ /\ \A u1, u2, u3 \in 1..Len(universe_solver'.representative) :
              ( /\ query_are_equal(universe_solver', u1, u2)
                /\ \/ <<u2, u3>> \in universe_solver'.disjoint
                   \/ <<u3, u2>> \in universe_solver'.disjoint )
                 => query_are_disjoint(universe_solver', <<u1, u3>>)
        /\ ( /\ last'.op = "concat"
             /\ \A i \in 1..Len(last'.arg.others) :
                   key_set(table_objects[last'.arg.others[i]].columns)
                       = key_set(table_objects[last'.arg.self].columns)
             /\ query_are_disjoint(universe_solver,
                    universes_of(PlanFrame, last'.arg.self,
                                 last'.arg.others)) )
              => last'.exc = "none"
        /\ ( /\ last'.op = "promise_are_equal"
             /\ query_are_disjoint(universe_solver,
                    << table_objects[last'.arg.self].universe,
                       table_objects[last'.arg.other].universe >>) )
              => last'.exc = "ValueError"
      ]_vars

\* After a promise of equality and a promise of disjointness, concat of two
\* tables whose universes were never asserted disjoint as a pair had
\* returned, and promise_are_equal of these two universes raised.
EqualityOfDisjointRefused ==
    /\ last.op = "promise_are_equal" /\ last.exc = "ValueError"
    /\ promise_calls = 3
    /\ \A e \in universe_solver.disjoint :
          {e[1], e[2]} # {table_objects[last.arg.self].universe,
                          table_objects[last.arg.other].universe}
    /\ \E i \in 1..Len(graph) :
          /\ graph[i].operator = "_concat"
          /\ table_objects[graph[i].output].id_column.context
                = "ConcatUnsafe"
          /\ query_is_subset(universe_solver,
                 table_objects[last.arg.self].universe,
                 table_objects[graph[i].output].universe)
          /\ query_is_subset(universe_solver,
                 table_objects[last.arg.other].universe,
                 table_objects[graph[i].output].universe)

\* C28: the universe solver is monotone: over every promise and every call
\* of an operator that allocates universes, each equality, subset or
\* disjointness query that answered true before the step answers true
\* after it; a promise that raises leaves the solver as it was.
SolverMonotone ==
    [][ /\ \A u, v \in 1..Len(universe_solver.representative) :
              /\ query_are_equal(universe_solver, u, v)
                    => query_are_equal(universe_solver', u, v)
              /\ query_is_subset(universe_solver, u, v)
                    => query_is_subset(universe_solver', u, v)
              /\ query_are_disjoint(universe_solver, <<u, v>>)
                    => query_are_disjoint(universe_solver', <<u, v>>)
        /\ Len(universe_solver'.representative)
              >= Len(universe_solver.representative)
        /\ ( last'.ret = NoValue /\ promise_calls' # promise_calls )
              => universe_solver' = universe_solver
      ]_vars

\* A promise of equality was kept after an operator had allocated a
\* universe and disjointness and subset assertions had been made.
PromisedAfterAllocation ==
    /\ last.op = "promise_are_equal" /\ last.exc = "none"
    /\ Len(universe_solver.representative) > Len(Schemas)
    /\ universe_solver.disjoint # {}
    /\ universe_solver.subset # {}
    /\ \E u, v \in 1..Len(universe_solver.representative) :
          u # v /\ query_are_equal(universe_solver, u, v)

\* The updates observed for key k and the entries expected for it, as
\* (insertion, row) pairs in their order.
ObservedOf(k) ==
    LET updates == SelectSeq(callback.observed, LAMBDA e : e.key = k)
    IN [i \in DOMAIN updates |-> <<updates[i].is_addition, updates[i].row>>]
ExpectedOf(k) ==
    LET entries == CheckKeyEntriesInStreamCallback(callback.expected)
    IN IF k \in DOMAIN entries
       THEN [i \in DOMAIN entries[k] |->
                <<entries[k][i].insertion, entries[k][i].row>>]
       ELSE <<>>
\* Sequence a is a subsequence of sequence b.
IsSubsequence(a, b) ==
    \E f \in [DOMAIN a -> DOMAIN b] :
        /\ \A i, j \in DOMAIN a : i < j => f[i] < f[j]
        /\ \A i \in DOMAIN a : a[i] = b[f[i]]

\* C29: the check of CheckKeyConsistentInStreamCallback passes (no assertion
\* fails in any __call__ nor in on_end) exactly when, for every key, the
\* updates observed for the key are a subsequence of the entries expected
\* for it, ordered by order and then insertion, and the last observed
\* update equals the last expected entry.
KeyConsistentVerdict ==
    ( callback.kind = "key" /\ (callback.ended \/ callback.failed) ) =>
        ( ~callback.failed <=>
            \A k \in StreamKeys :
                /\ IsSubsequence(ObservedOf(k), ExpectedOf(k))
                /\ IF ObservedOf(k) = <<>> THEN ExpectedOf(k) = <<>>
                   ELSE /\ ExpectedOf(k) # <<>>
                        /\ ObservedOf(k)[Len(ObservedOf(k))]
                              = ExpectedOf(k)[Len(ExpectedOf(k))] )

\* C30: on_end of CheckValuesConsistentInStreamCallback succeeds exactly
\* when every key whose state is not empty holds a single row with
\* multiplicity 1 and the multiset of those rows over all keys equals the
\* multiset of the expected rows; a key whose insertions were all retracted
\* (every row of it inserted as often as retracted) contributes nothing:
\* its state is empty.
ValuesConsistentVerdict ==
    ( callback.kind = "values" /\ callback.ended ) =>
        /\ ~callback.failed <=>
              /\ \A key \in DOMAIN callback.data :
                    DOMAIN callback.data[key].values # {} =>
                        \E value \in StreamRows :
                            /\ DOMAIN callback.data[key].values = {value}
                            /\ callback.data[key].values[value] = 1
              /\ \A value \in StreamRows :
                    Cardinality({key \in DOMAIN callback.data :
                        DOMAIN callback.data[key].values = {value}})
                        = Cardinality({i \in DOMAIN callback.expected :
                              callback.expected[i] = value})
        /\ \A key \in StreamKeys :
              ( \A value \in StreamRows :
                    Cardinality({i \in DOMAIN callback.observed :
                        /\ callback.observed[i].key = key
                        /\ callback.observed[i].row = value
                        /\ callback.observed[i].is_addition})
                    = Cardinality({i \in DOMAIN callback.observed :
                        /\ callback.observed[i].key = key
                        /\ callback.observed[i].row = value
                        /\ ~callback.observed[i].is_addition}) )
                 => \/ key \notin DOMAIN callback.data
                    \/ DOMAIN callback.data[key].values = {}

\* ------------------------------------------------ claims on failing calls
\* Some non-external column of the storage is neither cached nor held by
\* the storage registered for its universe.
HasUnresolvableColumn(storage) ==
    \E i \in 1..Len(storage.columns) :
        LET col == storage.columns[i] IN
        /\ col \notin ExternalColumns
        /\ col \notin DOMAIN columns
        /\ \/ column_universe[col] \notin DOMAIN storages
           \/ ~storage_has_column(storages[column_universe[col]], col)

\* C32: create_table(U, S) raises OutOfScopeError, makes no
\* scope.columns_to_table call and leaves tables and storages as they were,
\* whenever U has neither a cached engine universe nor a registered storage,
\* or some non-external column of S is neither cached nor held by the
\* storage registered for its universe; S itself is not consulted to
\* resolve its columns.
CreateTableOutOfScope ==
    [][ ( /\ last'.op = "create_table"
          /\ \/ /\ last'.arg.universe \notin DOMAIN universes
                /\ last'.arg.universe \notin DOMAIN storages
             \/ HasUnresolvableColumn(last'.arg.storage) )
        => ( /\ last'.exc = "OutOfScopeError"
             /\ \A i \in DOMAIN last'.calls :
                    last'.calls[i].fn # "columns_to_table"
             /\ tables' = tables
             /\ storages' = storages )
      ]_vars

\* A create_table failed on a storage that holds c1 while the storage
\* registered for the universe of c1 does not, the universe being cached.
CreateTableOfUnregisteredColumn ==
    /\ last.op = "create_table" /\ last.exc = "OutOfScopeError"
    /\ storage_has_column(last.arg.storage, "c1")
    /\ "c1" \notin DOMAIN columns
    /\ "u1" \in DOMAIN storages
    /\ ~storage_has_column(storages["u1"], "c1")
    /\ last.arg.universe \in DOMAIN universes

\* C33: after set_legacy_table(T, L) returned, get_legacy_table(T) returns
\* L, get_universe(T._universe) returns L.universe, get_column(T._id_column)
\* returns the id column of L.universe and get_column of the i-th column of
\* T returns L.columns[i] for every i, all without any engine call; no
\* column of T is left unbound.
LegacyTableRoundTrip ==
    (last.op = "set_legacy_table" /\ last.exc = "none") =>
        LET T == last.arg.table
            L == last.arg.legacy_table
        IN /\ get_legacy_table(Frame, T).exc = "none"
           /\ get_legacy_table(Frame, T).ret = L
           /\ get_legacy_table(Frame, T).calls = <<>>
           /\ get_universe(Frame, T.universe).exc = "none"
           /\ get_universe(Frame, T.universe).ret = L.universe
           /\ get_universe(Frame, T.universe).calls = <<>>
           /\ get_column(Frame, T.id_column).exc = "none"
           /\ get_column(Frame, T.id_column).ret
                  = EngineColumn(0, L.universe)
           /\ get_column(Frame, T.id_column).calls = <<>>
           /\ \A i \in 1..Len(T.columns) :
                 /\ T.columns[i] \in DOMAIN columns
                 /\ i <= Len(L.columns)
                 /\ get_column(Frame, T.columns[i]).exc = "none"
                 /\ get_column(Frame, T.columns[i]).ret = L.columns[i]
                 /\ get_column(Frame, T.columns[i]).calls = <<>>

\* C34 as stated: a has_legacy_table(T) probe that returns False leaves the
\* maps universes, columns, legacy_tables, tables and storages exactly as
\* they were before the call.
HasLegacyTableFalseChangesNothing ==
    [][ ( /\ last'.op = "has_legacy_table"
          /\ last'.exc = "none" /\ last'.ret.bool = FALSE )
        => UNCHANGED << universes, columns, legacy_tables, tables,
                        storages >>
      ]_vars

\* C34 amended: a has_legacy_table(T) probe that returns False leaves
\* legacy_tables, tables and storages as they were and rebinds no entry of
\* universes and columns; it may have added the entry of T's universe and
\* entries of columns of T resolved before the one that was out of scope.
HasLegacyTableFalseOnlyCaches ==
    [][ ( /\ last'.op = "has_legacy_table"
          /\ last'.exc = "none" /\ last'.ret.bool = FALSE )
        => /\ UNCHANGED << legacy_tables, tables, storages >>
           /\ last'.arg.table \notin DOMAIN legacy_tables'
           /\ DOMAIN universes \subseteq DOMAIN universes'
           /\ \A u \in DOMAIN universes : universes'[u] = universes[u]
           /\ DOMAIN universes' \subseteq
                  DOMAIN universes \cup {last'.arg.table.universe}
           /\ DOMAIN columns \subseteq DOMAIN columns'
           /\ \A c \in DOMAIN columns : columns'[c] = columns[c]
           /\ DOMAIN columns' \subseteq
                  DOMAIN columns
                  \cup { last'.arg.table.columns[i] :
                             i \in 1..Len(last'.arg.table.columns) }
      ]_vars

\* has_legacy_table answered False after it had resolved and cached the
\* universe of the table.
HasLegacyTableFalseAfterCaching ==
    /\ last.op = "has_legacy_table"
    /\ last.exc = "none" /\ last.ret.bool = FALSE
    /\ Len(last.calls) > 0
    /\ last.calls[1].fn = "table_universe"
    /\ last.arg.table.universe \in DOMAIN universes

\* C35: tables and storages have the same keys and the storage registered
\* for a universe belongs to that universe; so get_table of a storage that
\* get_storage returns never fails.
TablesAndStoragesAgree ==
    /\ DOMAIN tables = DOMAIN storages
    /\ \A u \in DOMAIN storages :
          /\ storages[u].universe = u
          /\ get_storage(Frame, u).exc = "none"
          /\ get_table(Frame, get_storage(Frame, u).ret).exc = "none"
          /\ get_table(Frame, get_storage(Frame, u).ret).ret = tables[u]

\* Both universes have a storage, one of them registered by create_table.
BothUniversesStored ==
    /\ DOMAIN storages = Universes
    /\ last.op = "create_table" /\ last.exc = "none"

\* C36: every cached column has its universe cached, and the engine column
\* lives on the cached engine universe, also after calls that ended in the
\* assertion failure of set_universe.
CachedColumnsOnCachedUniverse ==
    \A c \in DOMAIN columns :
        /\ column_universe[c] \in DOMAIN universes
        /\ universes[column_universe[c]] = columns[c].universe

\* ------------------------------------------ claims on the order of events
RECURSIVE ReplayValues(_, _)
\* The callback after the events were delivered to it one by one, the
\* stream ending at the first exception.
ReplayValues(self, events) ==
    IF events = <<>> \/ self.failed THEN self ELSE
    ReplayValues(
        CheckValuesConsistentInStreamCallback_call(
            self, events[1].key, events[1].row, events[1].time,
            events[1].is_addition),
        Tail(events))
\* The orders of delivery that differ from the observed one only inside
\* groups of events with the same key and the same time.
GroupPermutations ==
    { p \in [DOMAIN callback.observed -> DOMAIN callback.observed] :
        /\ \A i, j \in DOMAIN p : p[i] = p[j] => i = j
        /\ \A i, j \in DOMAIN p :
              ( /\ i < j
                /\ \/ callback.observed[p[i]].key
                         # callback.observed[p[j]].key
                   \/ callback.observed[p[i]].time
                         # callback.observed[p[j]].time )
              => p[i] < p[j] }

\* C39: the verdict of CheckValuesConsistentInStreamCallback does not
\* depend on the order of the events with the same key and the same time:
\* delivered in any permutation inside the (key, time) groups, the events
\* observed so far leave the same state for every key and the same
\* pass/fail outcome; so a retraction delivered before the insertion of
\* the same row leaves the key empty as the opposite order does.
ValuesVerdictOrderIndependent ==
    callback.kind = "values" =>
        \A p \in GroupPermutations :
            LET replayed ==
                    ReplayValues(
                        [callback EXCEPT !.data = EmptyMap,
                                         !.failed = FALSE,
                                         !.ended = FALSE],
                        [i \in DOMAIN p |-> callback.observed[p[i]]])
                final ==
                    IF callback.ended /\ ~replayed.failed
                    THEN CheckValuesConsistentInStreamCallback_on_end(
                             replayed)
                    ELSE replayed
            IN /\ final.failed = callback.failed
               /\ \A key \in StreamKeys :
                     (IF key \in DOMAIN final.data
                      THEN final.data[key].values ELSE EmptyMap)
                     = (IF key \in DOMAIN callback.data
                        THEN callback.data[key].values ELSE EmptyMap)

\* ------------------------------------------------------ claims on renaming
\* The name a column of self is to bear after the renaming.
NewNameOf(mapping, old_name) ==
    IF \E i \in 1..Len(mapping) : mapping[i].old_name = old_name
    THEN mapping[CHOOSE i \in 1..Len(mapping) :
                     mapping[i].old_name = old_name].new_name
    ELSE old_name

\* C38: rename_columns and rename_by_dict preserve the universe and are a
\* bijection on columns: the result has as many columns as self, every
\* column of self appears under exactly one name, its new name if it was
\* renamed and its old name otherwise; renaming a column that does not
\* exist raises ValueError.
RenameIsBijection ==
    last.op \in {"rename_columns", "rename_by_dict"} =>
        LET self == table_objects[last.arg.self]
            mapping == last.arg.mapping
        IN IF \E i \in 1..Len(mapping) :
                  mapping[i].old_name \notin key_set(self.columns)
           THEN last.exc = "ValueError"
           ELSE /\ last.exc = "none"
                /\ Result.universe = self.universe
                /\ Len(Result.columns) = Len(self.columns)
                /\ \A old_name \in key_set(self.columns) :
                      LET held == {j \in 1..Len(Result.columns) :
                                      Result.columns[j].column.expression.name
                                          = old_name}
                      IN /\ Cardinality(held) = 1
                         /\ \A j \in held :
                               Result.columns[j].name
                                   = NewNameOf(mapping, old_name)

\* ------------------------------------------ claims on refused operator calls
\* C37: a call of from_columns, flatten, concat, update_cells, restrict or
\* filter that raises ValueError or TypeError adds no operator node to the
\* parse graph, allocates no universe and records no fact in the universe
\* solver.
RefusedCallLeavesNoTrace ==
    [][ ( /\ last'.op \in {"from_columns", "flatten", "concat",
                           "update_cells", "restrict", "filter"}
          /\ last'.exc \in {"ValueError", "TypeError"} )
        => /\ graph' = graph
           /\ universe_solver' = universe_solver
      ]_vars

\* ------------------------------------------- claims on waiting for a result
\* C31: wait_result_with_checker polls the checker at most timeout_sec
\* times and not again after a truthy result, counts a poll that raised as
\* failed, has terminated and joined the child process by the time it
\* returns, returns a truthy value exactly when some poll returned one, and
\* always returns.
WaitResultWithCheckerTerminates ==
    /\ [] ( wait.pc # "idle" =>
              /\ Len(wait.polls) <= wait.timeout_sec
              /\ \A i \in 1..Len(wait.polls) :
                    (wait.polls[i] # "raise" /\ Truthy(wait.polls[i]))
                        => i = Len(wait.polls)
              /\ wait.pc = "returned" =>
                    /\ wait.joined
                    /\ wait.child # "running"
                    /\ Truthy(wait.succeeded)
                          <=> \E i \in 1..Len(wait.polls) :
                                 /\ wait.polls[i] # "raise"
                                 /\ Truthy(wait.polls[i])
                    /\ \/ Truthy(wait.succeeded)
                       \/ Len(wait.polls) = wait.timeout_sec )
    /\ (wait.pc # "idle") ~> (wait.pc = "returned")

\* The call returned a truthy value after a poll that raised, and it had to
\* terminate the child process.
ReturnedAfterFailedPoll ==
    /\ wait.pc = "returned"
    /\ Truthy(wait.succeeded)
    /\ Len(wait.polls) > 1
    /\ wait.polls[1] = "raise"
    /\ wait.child = "terminated"

====
